---- MODULE Spec2Model ----
(***************************************************************************)
(* The request pipeline of api/resources/generic.py (BaseResource and      *)
(* BaseModelResource): dispatch, authentication, validation, field         *)
(* projection, object lookup, the authorization gate, dehydration and the  *)
(* response, for one resource instance that serves requests.               *)
(*                                                                         *)
(* The attributes the code keeps on the resource instance (self.request,   *)
(* self.method, self.request_type, self.request_kwargs, self.bundle,       *)
(* self.ignore_fields) and the list Meta.api_uri_keys are variables of     *)
(* their own: they outlive a request. What belongs to one request (the     *)
(* request object, its user, the local variables of the handler) is kept   *)
(* per slot; a slot is a thread of the server.                             *)
(***************************************************************************)
EXTENDS Integers, Sequences, FiniteSets, TLC

\* ------------------------------------------------------------------ bounds
MaxRequests == 2      \* requests dispatched in one behaviour
MaxFields == 2        \* longest requested field list

\* --------------------------------------------------------------- universe
Slots == {1, 2}
ObjIds == {1, 2}
NoObj == 0
Users == {"alice", "bob"}
Verbs == {"GET", "POST", "PUT", "DELETE"}
Statuses == {"live", "hidden", "removed"}

Range(f) == {f[i] : i \in DOMAIN f}

\* ------------------------------------------------- the resource descriptor
\* self.fields of the modelled resource, in declaration order: the model
\* identifier, the canonical URI (include_resource_uri), one BaseForeignKey,
\* one BaseRelatedField and one scalar whose name ends in _uri.
Fields == <<"id", "resource_uri", "owner", "org", "photo_uri">>
FieldSet == Range(Fields)
DeclaredFields == {"owner", "org", "photo_uri"}
MetaFields == {"id"}
IsForeignKey(f) == f = "owner"
IsRelatedField(f) == f = "org"
IsRelationship(f) == IsForeignKey(f) \/ IsRelatedField(f)
\* "{0}_id".format(name)
IdName(f) ==
    CASE f = "owner" -> "owner_id"
      [] f = "org" -> "org_id"
      [] f = "id" -> "id_id"
      [] f = "resource_uri" -> "resource_uri_id"
      [] f = "photo_uri" -> "photo_uri_id"
      [] OTHER -> "x_id"
\* x.endswith('_uri')
EndsWithUri(k) == k \in {"resource_uri", "photo_uri"}
\* names a client may put in the 'fields' parameter (all match the form's regex)
RequestNames == FieldSet \cup {"owner_id", "org_id", "bogus"}
\* Meta.api_uri_keys as declared
BaseApiUriKeys == <<"resource_uri", "next", "previous">>
\* the validation forms the descriptor declares (get_validation_form is on Meta)
ValidationForms == {"get", "list", "update", "create"}

\* ------------------------------------------------------ the authorization gate
Authenticated(u) == u \in Users

\* BaseResource.is_authorized(request, object): method is
\* request.META['REQUEST_METHOD'], u is request.user
is_authorized(method, u, hasObject) ==
    IF ~hasObject THEN TRUE
    ELSE CASE method = "GET" -> TRUE
           [] method = "POST" -> Authenticated(u)
           [] method = "PUT" -> Authenticated(u)
           [] method = "DELETE" -> Authenticated(u)
           [] OTHER -> FALSE

\* what queryset.get_from_id can do for an identifier: hand the object out,
\* return nothing, raise Http404, raise Http410 (the except clauses of
\* _lookup_obj name both exceptions)
LookupOutcomes(st) ==
    CASE st = "none" -> {"nothing", "http404"}
      [] st = "removed" -> {"object", "http410"}
      [] OTHER -> {"object"}

\* _lookup_obj with the view permission tested after the state (mutant)
lookup_decision_state_first(outcome, perm, st) ==
    CASE outcome \in {"nothing", "http404"} -> "not_found"
      [] outcome = "http410" -> "gone_already"
      [] st = "hidden" -> "forbidden_hidden"
      [] st = "removed" -> "gone"
      [] perm -> "ok"
      [] OTHER -> "forbidden"

\* _lookup_obj without the branch for a removed object (mutant)
lookup_decision_no_gone(outcome, perm, st) ==
    CASE outcome \in {"nothing", "http404"} -> "not_found"
      [] outcome = "http410" -> "gone_already"
      [] perm -> "ok"
      [] st = "hidden" -> "forbidden_hidden"
      [] OTHER -> "forbidden"

\* _lookup_obj that never asks has_view_perm about a found object (mutant)
lookup_decision_no_perm(outcome, perm, st) ==
    CASE outcome \in {"nothing", "http404"} -> "not_found"
      [] outcome = "http410" -> "gone_already"
      [] OTHER -> "ok"

\* the if/elif chain of _lookup_obj: outcome of the lookup, the result of
\* object.has_view_perm(self.request.user), the state of the object
lookup_decision(outcome, perm, st) ==
    CASE outcome \in {"nothing", "http404"} -> "not_found"
      [] outcome = "http410" -> "gone_already"
      [] perm -> "ok"
      [] st = "hidden" -> "forbidden_hidden"
      [] st = "removed" -> "gone"
      [] OTHER -> "forbidden"

\* response class of each decision of _lookup_obj
LookupCode(d) ==
    CASE d = "not_found" -> 404
      [] d \in {"gone", "gone_already"} -> 410
      [] d \in {"forbidden", "forbidden_hidden"} -> 403
      [] OTHER -> 200

\* ------------------------------------------------------------ field projection
\* permanent_fields of filter_fields
PermanentFields == {"resource_uri"}
\* id_fields with one entry per relationship field of either kind (mutant)
id_fields_every_relationship ==
    {IdName(f) : f \in {g \in DeclaredFields \cup FieldSet : IsRelationship(g)}}

\* id_fields: one per BaseForeignKey among declared_fields and fields
id_fields == {IdName(f) : f \in {g \in DeclaredFields \cup FieldSet : IsForeignKey(g)}}
initial_fields == FieldSet \cup DeclaredFields \cup MetaFields \cup id_fields
valid_fields == initial_fields \cup PermanentFields

\* index of the first requested name that is not valid, 0 when all are
FirstInvalid(fields) ==
    LET bad == {i \in DOMAIN fields : fields[i] \notin valid_fields}
    IN IF bad = {} THEN 0 ELSE CHOOSE i \in bad : \A j \in bad : i <= j

\* filter_fields that keeps every valid name it did not see requested (mutant)
filter_fields_keep(fields) ==
    [invalid |-> IF FirstInvalid(fields) = 0 THEN "" ELSE fields[FirstInvalid(fields)],
     ignore |-> {}]

\* filter_fields(fields): the new self.ignore_fields and the name the
\* "not a valid field" error carries ("" when no error is raised).
\* fields is <<>> for an absent or empty 'fields' parameter.
filter_fields(fields) ==
    IF fields = <<>> THEN [invalid |-> "", ignore |-> {}]
    ELSE IF FirstInvalid(fields) # 0
         THEN [invalid |-> fields[FirstInvalid(fields)], ignore |-> {}]
         ELSE [invalid |-> "",
               ignore |-> {f \in initial_fields :
                             f \notin Range(fields) /\ f \notin PermanentFields}]

\* ------------------------------------------------------------------ dehydration
\* value of a key as the field's dehydrate produces it; fk and rel tell
\* whether the foreign key and the related instance are present
FieldValue(k, fk, rel) ==
    CASE k = "id" -> "int"
      [] k = "resource_uri" -> "rel"
      [] k = "photo_uri" -> "rel"
      [] k = "owner" -> IF fk THEN "bundle" ELSE "null"
      [] k = "org" -> IF rel THEN "bundle" ELSE "null"
      [] k = "owner_id" -> IF fk THEN "int" ELSE "null"
      [] OTHER -> "null"

\* the key the loop of full_dehydrate writes for field f ("" when it skips f)
EmittedKey(f, ign) ==
    IF f \in ign
    THEN IF IsForeignKey(f) /\ IdName(f) \notin ign THEN IdName(f) ELSE ""
    ELSE f

\* bundle.data after the per-field loop of full_dehydrate
dehydrate_fields(ign, fk, rel) ==
    LET ks == {EmittedKey(f, ign) : f \in FieldSet} \ {""}
    IN [k \in ks |-> FieldValue(k, fk, rel)]

\* _format_api_uri: the keys list after "keys += [...]" (the list object is
\* the one Meta holds)
api_uri_keys_after(data, keys) ==
    LET new == {k \in DOMAIN data : EndsWithUri(k) /\ k \notin Range(keys)}
    IN IF "photo_uri" \in new THEN Append(keys, "photo_uri") ELSE keys

\* "{0}/{1}".format(base_url, value.lstrip('/')) on a value token
PrefixBase(v) ==
    CASE v = "rel" -> "abs"
      [] v = "abs" -> "abs_abs"
      [] v = "abs_abs" -> "abs_abs_abs"
      [] OTHER -> v

Truthy(v) == v \notin {"null", ""}

\* _format_uri(request, object_data, keys, base_url)
format_uri(data, keys) ==
    [k \in DOMAIN data |->
        IF k \in Range(keys) /\ Truthy(data[k]) THEN PrefixBase(data[k]) ELSE data[k]]

\* _format_id_fields without its elif branch: only resolved relationships get
\* a sibling (mutant)
format_id_fields_resolved(data) ==
    LET bundles == {k \in DOMAIN data : data[k] = "bundle"}
    IN [k \in DOMAIN data \cup {IdName(r) : r \in bundles} |->
          IF \E r \in bundles : k = IdName(r) THEN "int" ELSE data[k]]

\* _format_id_fields(object_data)
format_id_fields(data) ==
    LET bundles == {k \in DOMAIN data : data[k] = "bundle"}
        empties == {k \in DOMAIN data : data[k] # "bundle" /\ k \in FieldSet
                                         /\ IsRelationship(k)}
    IN [k \in DOMAIN data \cup {IdName(r) : r \in bundles \cup empties} |->
          IF \E r \in bundles : k = IdName(r) THEN "int"
          ELSE IF \E r \in empties : k = IdName(r) THEN "null"
          ELSE data[k]]

\* clean_html on a value token: the tokens of this descriptor carry no markup
clean_html(v) == IF v = "markup" THEN "text" ELSE v

\* Meta.dont_escape
DontEscape == {}

\* _escape_fields(object_data)
escape_fields(data) ==
    [k \in DOMAIN data |->
        IF k \in DontEscape THEN data[k]
        ELSE IF data[k] \in {"rel", "abs", "abs_abs", "abs_abs_abs", "markup", "text"}
             THEN clean_html(data[k]) ELSE data[k]]

\* BaseResource.dehydrate: bundle.data after the three passes
dehydrate(data, keys) ==
    escape_fields(format_id_fields(format_uri(data, api_uri_keys_after(data, keys))))

\* full_dehydrate: the loop, then dehydrate
full_dehydrate(ign, fk, rel, keys) == dehydrate(dehydrate_fields(ign, fk, rel), keys)

\* --------------------------------------------------------------- authentication
\* BaseResource.is_authenticated: u is request.user as it arrives ("none"
\* when the middleware cleared it), token the user the access token belongs
\* to ("bad" when Authenticator.validate raises), method is self.method
is_authenticated(u, token, method) ==
    IF Authenticated(u)
    THEN [user |-> u, validated |-> FALSE, error |-> FALSE]
    ELSE IF token \in Users
         THEN [user |-> token, validated |-> TRUE, error |-> FALSE]
         ELSE IF method = "GET"
              THEN [user |-> "anon", validated |-> TRUE, error |-> FALSE]
              ELSE [user |-> u, validated |-> TRUE, error |-> TRUE]

\* ------------------------------------------------------------------- responses
NoResponse == [code |-> 0, body |-> "", msg |-> "", name |-> "", errors |-> {}]
Response(code, body) == [NoResponse EXCEPT !.code = code, !.body = body]
ErrorMessage(code, msg, name) ==
    [NoResponse EXCEPT !.code = code, !.body = "error_message", !.msg = msg, !.name = name]
\* what wrap_view answers when a handler ends with an uncaught exception
ServerError == Response(500, "server_error")

NoBundle == [set |-> FALSE, kind |-> "", fields |-> <<>>]
NewBundle(kind, fields) == [set |-> TRUE, kind |-> kind, fields |-> fields]

\* raise_error(response_message, response_class): it builds the response with
\* create_response, which stores the error dict as self.bundle.data; bundle is
\* self.bundle at the call. An instance without a bundle attribute ends the
\* request with an AttributeError instead.
raise_error(bundle, code, msg, name) ==
    IF bundle.set
    THEN [bundle |-> [bundle EXCEPT !.kind = "error", !.fields = <<>>],
          resp |-> ErrorMessage(code, msg, name)]
    ELSE [bundle |-> bundle, resp |-> ServerError]

\* the form class is_valid chooses ("" when none is declared for the operation)
form_for(request_type, method) ==
    CASE request_type = "detail" /\ method = "GET" /\ "get" \in ValidationForms -> "get"
      [] request_type = "list" /\ method = "GET" /\ "list" \in ValidationForms -> "list"
      [] request_type = "detail" /\ method = "PUT" /\ "update" \in ValidationForms -> "update"
      [] request_type = "list" /\ method = "POST" /\ "create" \in ValidationForms -> "create"
      [] OTHER -> ""

\* is_valid that reports the first failing field only (mutant)
validation_response_first(failing) ==
    [Response(400, "errors") EXCEPT
        !.errors = IF failing = {} THEN {} ELSE {CHOOSE f \in failing : TRUE}]

\* the response is_valid raises when the form has errors: form.errors holds
\* an entry for every failing field
validation_response(failing) == [Response(400, "errors") EXCEPT !.errors = failing]

\* -------------------------------------------------------------------- requests
\* who sends the request: <<request.user as attached by a view or "none",
\* the user of the access token or "bad">>
Identities ==
    {<<"none", "bad">>} \cup {<<"none", u>> : u \in Users} \cup {<<u, "bad">> : u \in Users}

Req(verb, rtype, ident, target, fields, failing, jsonOk, newStatus) ==
    [verb |-> verb, rtype |-> rtype, attached |-> ident[1], token |-> ident[2],
     target |-> target, fields |-> fields, failing |-> failing, jsonOk |-> jsonOk,
     newStatus |-> newStatus]

NoRequest == Req("", "", <<"none", "bad">>, NoObj, <<>>, {}, TRUE, "")

\* the fields of each validation form (those of the create and update forms
\* are the resource's own)
FormFields(form) ==
    CASE form = "get" -> {"fields"}
      [] form = "list" -> {"fields", "order_by"}
      [] OTHER -> {"name", "info"}
Failing(form) == SUBSET FormFields(form) \ {{}}

\* every list of at most n requested names
FieldLists(n) == UNION {[1..k -> RequestNames] : k \in 0..n}

\* GET requests with the field lists FL; a request whose parameters fail
\* validation is drawn with no field list, which is never read then
GetRequests(FL, idents) ==
    {Req("GET", "detail", i, o, f, {}, TRUE, "") : i \in idents, o \in ObjIds, f \in FL}
    \cup {Req("GET", "detail", i, o, <<>>, e, TRUE, "") :
            i \in idents, o \in ObjIds, e \in Failing("get")}
    \cup {Req("GET", "list", i, NoObj, f, {}, TRUE, "") : i \in idents, f \in FL}
    \cup {Req("GET", "list", i, NoObj, <<>>, e, TRUE, "") :
            i \in idents, e \in Failing("list")}

WriteRequests(idents) ==
    {Req("POST", "list", i, NoObj, <<>>, {}, TRUE, st) : i \in idents, st \in Statuses}
    \cup {Req("POST", "list", i, NoObj, <<>>, e, TRUE, "live") :
            i \in idents, e \in Failing("create")}
    \cup {Req("POST", "list", i, NoObj, <<>>, {}, FALSE, "live") : i \in idents}
    \cup {Req("PUT", "detail", i, o, <<>>, {}, TRUE, "") : i \in idents, o \in ObjIds}
    \cup {Req("PUT", "detail", i, o, <<>>, e, TRUE, "") :
            i \in idents, o \in ObjIds, e \in Failing("update")}
    \cup {Req("PUT", "detail", i, o, <<>>, {}, FALSE, "") : i \in idents, o \in ObjIds}
    \cup {Req("DELETE", "detail", i, o, <<>>, {}, TRUE, "") : i \in idents, o \in ObjIds}

\* form.save() of a view: the view's request (any verb, any user, no token),
\* the form type as rtype, the instance for an update
FormSaves ==
    {Req(v, "create", <<u, "bad">>, NoObj, <<>>, {}, TRUE, st) :
        v \in Verbs, u \in Users \cup {"anon"}, st \in Statuses}
    \cup {Req(v, "update", <<u, "bad">>, o, <<>>, {}, TRUE, "") :
        v \in Verbs, u \in Users \cup {"anon"}, o \in ObjIds}

GateFieldLists == {<<>>, <<"id">>, <<"bogus">>}
GateRequests == GetRequests(GateFieldLists, Identities) \cup WriteRequests(Identities)
ProjectionRequests == GetRequests(FieldLists(MaxFields), {<<"none", "bad">>, <<"alice", "bad">>})

\* ----------------------------------------------------------------------- state
VARIABLES
    db,             \* storage: object id -> [status, owner]; status "none": no such object
    api_uri_keys,   \* the list Meta.api_uri_keys
    res,            \* attributes of the resource instance
    rq,             \* per slot: the request in flight and its handler's locals
    nreq,           \* requests dispatched so far
    call            \* a function of the library being evaluated: its arguments and results

vars == <<db, api_uri_keys, res, rq, nreq, call>>

\* no function is being evaluated
NoCall == [op |-> "none"]

EmptyData == [k \in {} |-> ""]

\* a slot with no request
Idle ==
    [pc |-> "idle", req |-> NoRequest, user |-> "none", obj |-> NoObj,
     outcome |-> "", perm |-> FALSE, decision |-> "", seen |-> "", found |-> NoObj,
     validated |-> FALSE, used |-> {}, usedRequest |-> 0,
     page |-> {}, fresh |-> FALSE, viewer |-> "none",
     data |-> EmptyData, resp |-> NoResponse,
     acted |-> {}, calls |-> {}, gate |-> {}]

Init ==
    /\ db \in [ObjIds -> [status : {"none"} \cup Statuses, owner : {"alice"}]]
    /\ api_uri_keys = BaseApiUriKeys
    /\ res = [request_type |-> "", method |-> "", request |-> 0, request_kwargs |-> NoObj,
              bundle |-> NoBundle, ignore_fields |-> [has |-> FALSE, names |-> {}]]
    /\ rq = [s \in Slots |-> Idle]
    /\ nreq = 0
    /\ call = NoCall

FreeIds == {o \in ObjIds : db[o].status = "none"}
Creating == {t \in Slots : rq[t].pc \notin {"idle", "done"}
                             /\ (rq[t].req.verb = "POST" \/ rq[t].req.rtype = "create")}

\* a request ends with response r
Done(s, r) == [rq EXCEPT ![s].pc = "done", ![s].resp = r]

\* the handler tastypie's dispatch calls for the request
Handler(r) ==
    CASE r.verb = "GET" /\ r.rtype = "detail" -> "get_detail"
      [] r.verb = "GET" /\ r.rtype = "list" -> "get_list"
      [] r.verb = "POST" -> "post_list"
      [] r.verb = "PUT" -> "put_detail"
      [] OTHER -> "delete_detail"

\* BaseResource.dispatch, lines 112-115: request r arrives at slot s
Dispatch(s, r) ==
    /\ rq[s].pc = "idle"
    /\ nreq < MaxRequests
    /\ r.verb = "POST" => Cardinality(FreeIds) > Cardinality(Creating)
    /\ res' = [res EXCEPT !.request_type = r.rtype, !.method = r.verb,
                          !.request = s, !.request_kwargs = r.target]
    /\ rq' = [rq EXCEPT ![s] = [Idle EXCEPT !.pc = "authenticate", !.req = r,
                                            !.user = r.attached]]
    /\ nreq' = nreq + 1
    /\ UNCHANGED <<call, db, api_uri_keys>>

\* tastypie's dispatch: is_authenticated(request), then the verb-level
\* is_authorized(request), then the handler
Authenticate(s) ==
    /\ rq[s].pc = "authenticate"
    /\ LET a == is_authenticated(rq[s].user, rq[s].req.token, res.method)
           e == raise_error(res.bundle, 401, "unauthenticated", "")
           verb == rq[s].req.verb
       IN IF a.error
          THEN /\ res' = [res EXCEPT !.bundle = e.bundle]
               /\ rq' = [rq EXCEPT ![s].pc = "done", ![s].resp = e.resp,
                                   ![s].validated = a.validated]
          ELSE /\ res' = res
               /\ rq' = [rq EXCEPT ![s].pc = Handler(rq[s].req),
                                   ![s].user = a.user,
                                   ![s].validated = a.validated,
                                   ![s].calls = @ \cup
                                       {[method |-> verb, user |-> a.user, object |-> FALSE,
                                         allowed |-> is_authorized(verb, a.user, FALSE)]}]
    /\ UNCHANGED <<call, db, api_uri_keys, nreq>>

\* the errors is_valid finds: those of the request's data that the chosen
\* form has a field for
form_errors(request_type, method, failing) ==
    IF form_for(request_type, method) = "" THEN {}
    ELSE failing \cap FormFields(form_for(request_type, method))

\* get_detail lines 566-568 and get_list lines 597-599: a new self.bundle
\* with the GET parameters, then is_valid on it
GetValidate(s) ==
    /\ rq[s].pc \in {"get_detail", "get_list"}
    /\ LET errs == form_errors(res.request_type, rq[s].req.verb, rq[s].req.failing)
       IN IF errs # {}
          THEN /\ res' = [res EXCEPT !.bundle = NewBundle("params", <<>>)]
               /\ rq' = Done(s, validation_response(errs))
          ELSE /\ res' = [res EXCEPT !.bundle = NewBundle("cleaned", rq[s].req.fields)]
               /\ rq' = [rq EXCEPT ![s].pc = "filter"]
    /\ UNCHANGED <<call, db, api_uri_keys, nreq>>

\* a handler that goes on to the lookup whatever filter_fields finds (mutant)
FilterFieldsUnchecked(s) ==
    /\ rq[s].pc = "filter"
    /\ res' = [res EXCEPT !.ignore_fields =
                  [has |-> TRUE, names |-> filter_fields(res.bundle.fields).ignore]]
    /\ rq' = [rq EXCEPT ![s].pc = IF rq[s].req.rtype = "detail"
                                  THEN "obj_get" ELSE "obj_get_list"]
    /\ UNCHANGED <<call, db, api_uri_keys, nreq>>

\* get_detail lines 571-572 and get_list lines 602-603: the field list is
\* read from self.bundle.data and handed to filter_fields
FilterFields(s) ==
    /\ rq[s].pc = "filter"
    /\ LET f == filter_fields(res.bundle.fields)
           e == raise_error(res.bundle, 400, "invalid_field", f.invalid)
       IN IF f.invalid # ""
          THEN /\ res' = [res EXCEPT !.ignore_fields = [has |-> TRUE, names |-> f.ignore],
                                     !.bundle = e.bundle]
               /\ rq' = Done(s, e.resp)
          ELSE /\ res' = [res EXCEPT !.ignore_fields = [has |-> TRUE, names |-> f.ignore]]
               /\ rq' = [rq EXCEPT ![s].pc = IF rq[s].req.rtype = "detail"
                                             THEN "obj_get" ELSE "obj_get_list"]
    /\ UNCHANGED <<call, db, api_uri_keys, nreq>>

\* the user has_view_perm is asked about: self.request.user
Viewer == IF res.request = 0 THEN "none" ELSE rq[res.request].user

\* _lookup_obj for slot s, continuing at pc next when the object is returned:
\* the identifier comes from self.request_kwargs; the lookup's outcome and
\* has_view_perm's answer are the collaborators'. Every failure stores a new
\* Bundle in self.bundle and raises.
LookupObj(s, next) ==
    IF res.request_kwargs = NoObj
    THEN LET e == raise_error(res.bundle, 400, "invalid_lookup", "")
         IN /\ res' = [res EXCEPT !.bundle = e.bundle]
            /\ rq' = Done(s, e.resp)
    ELSE \E outcome \in LookupOutcomes(db[res.request_kwargs].status) :
         \E perm \in IF outcome = "object" THEN BOOLEAN ELSE {FALSE} :
            LET o == res.request_kwargs
                d == lookup_decision(outcome, perm, db[o].status)
                e == raise_error(NewBundle("empty", <<>>), LookupCode(d), d, "")
                seen == [rq EXCEPT ![s].outcome = outcome, ![s].perm = perm,
                                   ![s].decision = d, ![s].viewer = Viewer,
                                   ![s].seen = db[o].status,
                                   ![s].found = IF d = "ok" THEN o ELSE NoObj,
                                   ![s].obj = IF d = "ok" THEN o ELSE NoObj]
            IN IF d = "ok"
               THEN /\ res' = res
                    /\ rq' = [seen EXCEPT ![s].pc = next]
               ELSE /\ res' = [res EXCEPT !.bundle = e.bundle]
                    /\ rq' = [seen EXCEPT ![s].pc = "done", ![s].resp = e.resp]

\* get_detail lines 574-579: obj_get
ObjGet(s) ==
    /\ rq[s].pc = "obj_get"
    /\ LookupObj(s, "dehydrate")
    /\ UNCHANGED <<call, db, api_uri_keys, nreq>>

\* get_list lines 605-609: obj_get_list (the objects the storage lets the
\* user see), apply_sorting and the paginator
ObjGetList(s) ==
    /\ rq[s].pc = "obj_get_list"
    /\ \E page \in SUBSET {o \in ObjIds : db[o].status \in {"live", "hidden"}} :
          rq' = [rq EXCEPT ![s].pc = "dehydrate", ![s].page = page]
    /\ UNCHANGED <<call, db, api_uri_keys, res, nreq>>

\* self.ignore_fields as full_dehydrate reads it (hasattr guards the read)
IgnoreFields == IF res.ignore_fields.has THEN res.ignore_fields.names ELSE {}

\* full_dehydrate of the handler's bundle (get_detail 581-583, get_list
\* 612-614, and the data-returning answers of post_list and put_detail)
Dehydrate(s) ==
    /\ rq[s].pc = "dehydrate"
    /\ IF rq[s].req.rtype = "list" /\ rq[s].req.verb = "GET" /\ rq[s].page = {}
       THEN /\ rq' = [rq EXCEPT ![s].pc = "respond", ![s].used = IgnoreFields,
                                ![s].usedRequest = res.request]
            /\ api_uri_keys' = api_uri_keys
       ELSE IF rq[s].req.verb # "GET" /\ rq[s].obj = NoObj /\ ~rq[s].fresh
       THEN /\ rq' = Done(s, ServerError)
            /\ api_uri_keys' = api_uri_keys
       ELSE LET emitted == DOMAIN dehydrate_fields(IgnoreFields, TRUE, TRUE)
            IN \E fk \in IF {"owner", "owner_id"} \cap emitted # {} THEN BOOLEAN ELSE {FALSE} :
               \E rel \in IF "org" \in emitted THEN BOOLEAN ELSE {FALSE} :
                 /\ rq' = [rq EXCEPT ![s].pc = "respond", ![s].used = IgnoreFields,
                                     ![s].usedRequest = res.request,
                                     ![s].data = full_dehydrate(IgnoreFields, fk, rel,
                                                                api_uri_keys)]
                 /\ api_uri_keys' =
                      api_uri_keys_after(dehydrate_fields(IgnoreFields, fk, rel), api_uri_keys)
    /\ UNCHANGED <<call, db, res, nreq>>

\* the response class of a request that answers with data
SuccessCode(r) ==
    CASE r.verb = "POST" -> 201
      [] r.verb = "PUT" -> 202
      [] OTHER -> 200

\* create_response: a list answer is stored as self.bundle.data, a single
\* object's bundle replaces self.bundle
Respond(s) ==
    /\ rq[s].pc = "respond"
    /\ IF rq[s].req.rtype = "list" /\ rq[s].req.verb = "GET"
       THEN IF res.bundle.set
            THEN /\ res' = [res EXCEPT !.bundle = [@ EXCEPT !.kind = "list", !.fields = <<>>]]
                 /\ rq' = Done(s, Response(200, "list"))
            ELSE /\ res' = res
                 /\ rq' = Done(s, ServerError)
       ELSE /\ res' = [res EXCEPT !.bundle = NewBundle("object", <<>>)]
            /\ rq' = Done(s, Response(SuccessCode(rq[s].req), "object"))
    /\ UNCHANGED <<call, db, api_uri_keys, nreq>>

\* the request do_if_authorized hands to is_authorized: self.request
GateMethod == IF res.request = 0 THEN "" ELSE rq[res.request].req.verb

\* do_if_authorized that never asks is_authorized (mutant)
do_if_authorized_unchecked(method, u) == TRUE

\* do_if_authorized(object, action): TRUE when the action is invoked (and its
\* result returned), FALSE when nothing is done and None is returned
do_if_authorized(method, u) == is_authorized(method, u, TRUE)

\* the entries one call of do_if_authorized adds to the slot's records
Gated(s, action, o) ==
    [rq EXCEPT
       ![s].calls = @ \cup {[method |-> GateMethod, user |-> Viewer, object |-> TRUE,
                             allowed |-> is_authorized(GateMethod, Viewer, TRUE)]},
       ![s].gate = @ \cup {[action |-> action, obj |-> o,
                            allowed |-> is_authorized(GateMethod, Viewer, TRUE),
                            invoked |-> do_if_authorized(GateMethod, Viewer)]},
       ![s].acted = IF do_if_authorized(GateMethod, Viewer)
                    THEN @ \cup {<<action, o>>} ELSE @]

\* the body could not be deserialized: dispatch catches JSONDecodeError
MalformedJson(s) ==
    LET e == raise_error(res.bundle, 400, "malformed_json", "")
    IN /\ res' = [res EXCEPT !.bundle = e.bundle]
       /\ rq' = Done(s, e.resp)

\* the form part of is_valid (lines 638-679) for a request with a body
ValidateBody(s, next) ==
    LET errs == form_errors(res.request_type, rq[s].req.verb, rq[s].req.failing)
    IN /\ res' = res
       /\ rq' = IF errs # {} THEN Done(s, validation_response(errs))
                ELSE [rq EXCEPT ![s].pc = next]

\* tastypie's post_list up to obj_create: deserialize, is_valid
PostList(s) ==
    /\ rq[s].pc = "post_list"
    /\ IF ~rq[s].req.jsonOk THEN MalformedJson(s) ELSE ValidateBody(s, "obj_create")
    /\ UNCHANGED <<call, db, api_uri_keys, nreq>>

\* the identifier storage gives the next saved object
NewId == CHOOSE o \in FreeIds : \A p \in FreeIds : o <= p

\* obj_create: the hydrated object is submitted, or submitted hidden, through
\* do_if_authorized; an object that is neither live nor hidden is left alone
ObjCreate(s) ==
    /\ rq[s].pc = "obj_create"
    /\ FreeIds # {}
    /\ LET st == rq[s].req.newStatus
           action == IF st = "live" THEN "submit" ELSE "submit_hidden"
           after == IF rq[s].req.rtype = "create" THEN "done" ELSE "dehydrate"
           answer == IF rq[s].req.rtype = "create" THEN Response(0, "form_result")
                     ELSE NoResponse
       IN IF st \in {"live", "hidden"}
          THEN /\ rq' = [Gated(s, action, NewId) EXCEPT
                            ![s].pc = after, ![s].resp = answer,
                            ![s].obj = IF do_if_authorized(GateMethod, Viewer)
                                       THEN NewId ELSE NoObj]
               /\ db' = IF do_if_authorized(GateMethod, Viewer)
                        THEN [db EXCEPT ![NewId] = [status |-> st, owner |-> Viewer]]
                        ELSE db
          ELSE /\ rq' = [rq EXCEPT ![s].pc = after, ![s].resp = answer,
                                   ![s].fresh = TRUE]
               /\ db' = db
    /\ res' = [res EXCEPT !.bundle = NewBundle("hydrated", <<>>)]
    /\ UNCHANGED <<call, api_uri_keys, nreq>>

\* tastypie's put_detail up to the form: deserialize, then the first part of
\* is_valid (lines 631-636), which looks the object up for a detail PUT
PutDetail(s) ==
    /\ rq[s].pc = "put_detail"
    /\ IF ~rq[s].req.jsonOk THEN MalformedJson(s)
       ELSE IF res.request_type = "detail" THEN LookupObj(s, "validate_update")
       ELSE /\ res' = res
            /\ rq' = [rq EXCEPT ![s].pc = "validate_update"]
    /\ UNCHANGED <<call, db, api_uri_keys, nreq>>

\* the form part of is_valid for the update
ValidateUpdate(s) ==
    /\ rq[s].pc = "validate_update"
    /\ ValidateBody(s, "obj_update")
    /\ UNCHANGED <<call, db, api_uri_keys, nreq>>

\* obj_update: the edit goes through do_if_authorized; no result means
\* "You are not authorized to edit this object"
ObjUpdate(s) ==
    /\ rq[s].pc = "obj_update"
    /\ IF rq[s].obj = NoObj
       THEN /\ rq' = Done(s, ServerError)
            /\ res' = res
       ELSE IF do_if_authorized(GateMethod, Viewer)
       THEN /\ rq' = [Gated(s, "edit", rq[s].obj) EXCEPT
                        ![s].pc = IF rq[s].req.rtype = "update" THEN "done" ELSE "dehydrate",
                        ![s].resp = IF rq[s].req.rtype = "update"
                                    THEN Response(0, "form_result") ELSE NoResponse]
            /\ res' = [res EXCEPT !.bundle = NewBundle("hydrated", <<>>)]
       ELSE LET e == raise_error(NewBundle("hydrated", <<>>), 401, "not_authorized_edit", "")
            IN /\ rq' = [Gated(s, "edit", rq[s].obj) EXCEPT
                            ![s].pc = "done", ![s].resp = e.resp, ![s].obj = NoObj]
               /\ res' = [res EXCEPT !.bundle = e.bundle]
    /\ UNCHANGED <<call, db, api_uri_keys, nreq>>

\* tastypie's delete_detail calls obj_delete, whose first line is _lookup_obj
DeleteDetail(s) ==
    /\ rq[s].pc = "delete_detail"
    /\ LookupObj(s, "remove")
    /\ UNCHANGED <<call, db, api_uri_keys, nreq>>

\* obj_delete line 741: remove through do_if_authorized; delete_detail answers
\* 204 whatever it returned
Remove(s) ==
    /\ rq[s].pc = "remove"
    /\ rq' = [Gated(s, "remove", rq[s].obj) EXCEPT
                ![s].pc = "done", ![s].resp = Response(204, "empty")]
    /\ db' = IF do_if_authorized(GateMethod, Viewer)
             THEN [db EXCEPT ![rq[s].obj].status = "removed"] ELSE db
    /\ UNCHANGED <<call, api_uri_keys, res, nreq>>

\* BaseForm.save: the form's request becomes self.request and the bundle goes
\* to obj_create or obj_update (the instance of an update is an existing object)
FormSave(s, r) ==
    /\ rq[s].pc = "idle"
    /\ nreq < MaxRequests
    /\ r.rtype = "create" => Cardinality(FreeIds) > Cardinality(Creating)
    /\ r.rtype = "update" => db[r.target].status # "none"
    /\ res' = [res EXCEPT !.request = s]
    /\ rq' = [rq EXCEPT ![s] = [Idle EXCEPT
                 !.pc = IF r.rtype = "create" THEN "obj_create" ELSE "obj_update",
                 !.req = r, !.user = r.attached, !.obj = r.target]]
    /\ nreq' = nreq + 1
    /\ UNCHANGED <<call, db, api_uri_keys>>

\* the response has been returned: the request and its locals are gone
Finish(s) ==
    /\ rq[s].pc = "done"
    /\ rq' = [rq EXCEPT ![s] = Idle]
    /\ UNCHANGED <<call, db, api_uri_keys, res, nreq>>

\* the steps of a request in flight at slot s
Step(s) ==
    \/ Authenticate(s)
    \/ GetValidate(s)
    \/ FilterFields(s)
    \/ ObjGet(s)
    \/ ObjGetList(s)
    \/ Dehydrate(s)
    \/ Respond(s)
    \/ PostList(s)
    \/ ObjCreate(s)
    \/ PutDetail(s)
    \/ ValidateUpdate(s)
    \/ ObjUpdate(s)
    \/ DeleteDetail(s)
    \/ Remove(s)
    \/ Finish(s)

\* one request at a time on the resource instance
Next ==
    \/ \E r \in GateRequests : Dispatch(1, r)
    \/ \E r \in FormSaves : FormSave(1, r)
    \/ Step(1)

Spec == Init /\ [][Next]_vars

\* ------------------------------------------- one request, any earlier history
\* what earlier requests can have left on the instance
LeftIgnoreFields ==
    {[has |-> FALSE, names |-> {}], [has |-> TRUE, names |-> {}],
     [has |-> TRUE, names |-> initial_fields \ PermanentFields]}

InitProjection ==
    /\ db = [o \in ObjIds |-> [status |-> IF o = 1 THEN "live" ELSE "none", owner |-> "alice"]]
    /\ api_uri_keys \in {BaseApiUriKeys, Append(BaseApiUriKeys, "photo_uri")}
    /\ \E ign \in LeftIgnoreFields, b \in {NoBundle, NewBundle("object", <<>>)} :
          res = [request_type |-> "", method |-> "", request |-> 0, request_kwargs |-> NoObj,
                 bundle |-> b, ignore_fields |-> ign]
    /\ rq = [s \in Slots |-> Idle]
    /\ nreq = 0
    /\ call = NoCall

\* one GET request with any list of at most MaxFields requested names
NextProjection ==
    \/ \E r \in ProjectionRequests : nreq = 0 /\ Dispatch(1, r)
    \/ Authenticate(1)
    \/ GetValidate(1)
    \/ FilterFields(1)
    \/ ObjGet(1)
    \/ ObjGetList(1)
    \/ Dehydrate(1)
    \/ Respond(1)
    \/ Finish(1)

SpecProjection == InitProjection /\ [][NextProjection]_vars

\* --------------------------------------------------- two requests at a time
ConcRequests ==
    GetRequests({<<>>, <<"id">>}, {<<"none", "bad">>})
    \cup {Req("DELETE", "detail", <<"none", "bob">>, o, <<>>, {}, TRUE, "") : o \in ObjIds}

InitConc ==
    /\ db = [o \in ObjIds |-> [status |-> IF o = 1 THEN "live" ELSE "hidden", owner |-> "alice"]]
    /\ api_uri_keys = BaseApiUriKeys
    /\ res = [request_type |-> "", method |-> "", request |-> 0, request_kwargs |-> NoObj,
              bundle |-> NoBundle, ignore_fields |-> [has |-> FALSE, names |-> {}]]
    /\ rq = [s \in Slots |-> Idle]
    /\ nreq = 0
    /\ call = NoCall

\* two threads of the server share the resource instance, each serving one
\* request (its request object stays referenced by self.request)
NextConc ==
    \E s \in Slots :
        \/ \E r \in ConcRequests : Dispatch(s, r)
        \/ Authenticate(s)
        \/ GetValidate(s)
        \/ FilterFields(s)
        \/ ObjGet(s)
        \/ ObjGetList(s)
        \/ Dehydrate(s)
        \/ Respond(s)
        \/ DeleteDetail(s)
        \/ Remove(s)

SpecConc == InitConc /\ [][NextConc]_vars

\* ------------------------------------------- list requests: limit and ordering
MaxKeys == 2
\* settings.GET_LIMIT_MAX
GET_LIMIT_MAX == 2

\* Meta.list_validation_form of the resource: not declared (BaseModelResource.Meta
\* declares get_validation_form only), a form without an order_by field, or
\* the list form
ListForms == {"none", "BaseModelResourceForm", "BaseModelResourceListForm"}

\* the 'limit' parameter: absent, not a number, or an integer
Limits ==
    {[kind |-> "absent", value |-> 0], [kind |-> "text", value |-> 0]}
      \cup {[kind |-> "int", value |-> v] : v \in {GET_LIMIT_MAX, GET_LIMIT_MAX + 1}}

\* an order_by key as the user writes it: an optional '-', a name, an
\* optional '_id'
OrderStems == {"name", "owner", "label", "score", "virtual", "secret"}
OrderKeys ==
    [prefix : {"", "-"}, stem : OrderStems, suffix : {""}]
      \cup [prefix : {"", "-"}, stem : {"name", "owner"}, suffix : {"_id"}]

\* the 'order_by' parameter: absent, or a bracketed list of at most MaxKeys keys
OrderBys ==
    {[given |-> FALSE, keys |-> <<>>]}
      \cup {[given |-> TRUE, keys |-> k] : k \in UNION {[1..n -> OrderKeys] : n \in 0..MaxKeys}}

\* what getattr(self, name, None) finds on the resource: its fields
ResourceAttributes == {"name", "owner", "label", "score", "virtual"}
\* the resource fields that are BaseForeignKey or BaseRelatedField
RelationAttributes == {"owner"}
\* Meta.maps_to: resource attribute -> model expression; an expression that
\* matches [a-z_0-9]+$ is simple
MapsTo == {"label", "score"}
MapsToSimple == {"label"}
MappedName(stem) == IF stem = "label" THEN "title" ELSE stem
\* the names meta.get_field_by_name finds on the model
ModelFieldNames == {"name", "owner", "label", "secret"}

\* BaseModelResourceListForm.clean that ignores ignore_limit (mutant)
list_form_clean_strict(limit, ignore_limit) ==
    limit.kind = "int" /\ limit.value > GET_LIMIT_MAX

\* BaseModelResourceListForm.clean: TRUE when it raises the limit error
list_form_clean(limit, ignore_limit) ==
    IF limit.kind # "int" THEN FALSE
    ELSE limit.value > GET_LIMIT_MAX /\ ~ignore_limit

\* is_valid for a GET on the list endpoint: the errors of the form and
\* bundle.data afterwards (hasOrderBy: the key 'order_by' is in it; raw: its
\* value is still the parameter's text)
is_valid_list(form, limit, order_by, locally_accessed) ==
    CASE form = "none" ->
            [errors |-> {},
             data |-> [hasOrderBy |-> order_by.given, raw |-> TRUE, keys |-> order_by.keys]]
      [] form = "BaseModelResourceForm" ->
            [errors |-> {},
             data |-> [hasOrderBy |-> FALSE, raw |-> FALSE, keys |-> <<>>]]
      [] OTHER ->
            [errors |-> IF list_form_clean(limit, locally_accessed)
                        THEN {"limit_exceeded"} ELSE {},
             data |-> [hasOrderBy |-> TRUE, raw |-> FALSE, keys |-> order_by.keys]]

\* the check of apply_sorting lines 413-420 on one key: TRUE when it raises
NotAnAttribute(key) ==
    \/ key.stem \notin ResourceAttributes
    \/ key.suffix = "_id" /\ key.stem \notin RelationAttributes

\* apply_sorting that looks on the model before maps_to (mutant)
resolve_ordering_model_first(key) ==
    IF key.stem \in ModelFieldNames
    THEN [error |-> "", prefix |-> key.prefix, name |-> key.stem, computed |-> FALSE]
    ELSE IF key.stem \in MapsTo
    THEN [error |-> "", prefix |-> key.prefix, name |-> MappedName(key.stem),
          computed |-> key.stem \notin MapsToSimple]
    ELSE [error |-> "cannot_order", prefix |-> "", name |-> "", computed |-> FALSE]

\* apply_sorting lines 422-452 on one key that passed the attribute check:
\* the entry appended to final_ordering_list (computed: the name is the
\* '<key>_for_api_ordering' column added to select), or the error raised
resolve_ordering(key) ==
    IF key.stem \in MapsTo
    THEN IF key.stem \in MapsToSimple
         THEN [error |-> "", prefix |-> key.prefix, name |-> MappedName(key.stem),
               computed |-> FALSE]
         ELSE [error |-> "", prefix |-> key.prefix, name |-> key.stem, computed |-> TRUE]
    ELSE IF key.stem \in ModelFieldNames
         THEN [error |-> "", prefix |-> key.prefix, name |-> key.stem, computed |-> FALSE]
         ELSE [error |-> "cannot_order", prefix |-> "", name |-> "", computed |-> FALSE]

\* the error of one key, "" when it resolves
KeyError(key) == IF NotAnAttribute(key) THEN "no_attribute" ELSE resolve_ordering(key).error

\* final_ordering_list of line 454
DefaultOrdering == <<[error |-> "", prefix |-> "-", name |-> "id", computed |-> FALSE]>>

\* apply_sorting(obj_list) on bundle.data: sorted is FALSE when obj_list is
\* returned as it came; error is the first error raised
apply_sorting(data) ==
    IF ~data.hasOrderBy
    THEN [error |-> "", sorted |-> FALSE, ordering |-> <<>>]
    ELSE IF data.raw
    THEN \* the loop runs over the characters of the text; the first is '['
         [error |-> "no_attribute", sorted |-> FALSE, ordering |-> <<>>]
    ELSE IF data.keys = <<>>
    THEN [error |-> "", sorted |-> TRUE, ordering |-> DefaultOrdering]
    ELSE LET bad == {i \in DOMAIN data.keys : KeyError(data.keys[i]) # ""}
         IN IF bad # {}
            THEN [error |-> KeyError(data.keys[CHOOSE i \in bad : \A j \in bad : i <= j]),
                  sorted |-> FALSE, ordering |-> <<>>]
            ELSE [error |-> "", sorted |-> TRUE,
                  ordering |-> [i \in DOMAIN data.keys |-> resolve_ordering(data.keys[i])]]

\* the orders in which the storage can return the objects 1 and 2 for a
\* sorting result: order_by on the identifier fixes it, anything else leaves
\* it to the storage
QueryOrders(sorting) ==
    IF sorting.sorted /\ sorting.ordering[1].name = "id" /\ ~sorting.ordering[1].computed
    THEN IF sorting.ordering[1].prefix = "-" THEN {<<2, 1>>} ELSE {<<1, 2>>}
    ELSE {<<1, 2>>, <<2, 1>>}

NoSorting == [error |-> "", sorted |-> FALSE, ordering |-> <<>>]

\* a GET on the list endpoint about to be validated
ListCalls ==
    {[op |-> "get_list", pc |-> "is_valid", form |-> f, limit |-> l, order_by |-> o,
      locally_accessed |-> a, errors |-> {},
      data |-> [hasOrderBy |-> FALSE, raw |-> FALSE, keys |-> <<>>],
      sorting |-> NoSorting, objects |-> <<>>, code |-> 0] :
        f \in ListForms, l \in Limits, o \in OrderBys, a \in BOOLEAN}

\* the state of the resource outside the function being evaluated
Quiet ==
    /\ db = [o \in ObjIds |-> [status |-> "live", owner |-> "alice"]]
    /\ api_uri_keys = BaseApiUriKeys
    /\ res = [request_type |-> "", method |-> "", request |-> 0, request_kwargs |-> NoObj,
              bundle |-> NoBundle, ignore_fields |-> [has |-> FALSE, names |-> {}]]
    /\ rq = [s \in Slots |-> Idle]
    /\ nreq = 0

InitList == Quiet /\ call \in ListCalls

\* get_list lines 597-599: is_valid raises the 400 with the form's errors
ListIsValid ==
    /\ call.op = "get_list" /\ call.pc = "is_valid"
    /\ LET v == is_valid_list(call.form, call.limit, call.order_by, call.locally_accessed)
       IN call' = IF v.errors # {}
                  THEN [call EXCEPT !.pc = "done", !.errors = v.errors, !.code = 400]
                  ELSE [call EXCEPT !.pc = "apply_sorting", !.data = v.data]
    /\ UNCHANGED <<db, api_uri_keys, res, rq, nreq>>

\* get_list line 606: apply_sorting raises the 400 or hands on the queryset
ListApplySorting ==
    /\ call.op = "get_list" /\ call.pc = "apply_sorting"
    /\ LET r == apply_sorting(call.data)
       IN call' = IF r.error # ""
                  THEN [call EXCEPT !.pc = "done", !.sorting = r, !.code = 400]
                  ELSE [call EXCEPT !.pc = "page", !.sorting = r]
    /\ UNCHANGED <<db, api_uri_keys, res, rq, nreq>>

\* get_list lines 608-609: the paginator evaluates the queryset
ListPage ==
    /\ call.op = "get_list" /\ call.pc = "page"
    /\ \E objs \in QueryOrders(call.sorting) :
          call' = [call EXCEPT !.pc = "done", !.objects = objs, !.code = 200]
    /\ UNCHANGED <<db, api_uri_keys, res, rq, nreq>>

NextList == ListIsValid \/ ListApplySorting \/ ListPage

SpecList == InitList /\ [][NextList]_vars

\* --------------------------------------------------------- related resources
\* the resource a relationship field points to: whether it has a name and a
\* short_name field, a dehydrate_name and a dehydrate_short_name method, and
\* whether its objects have the attributes (a field reads the attribute of
\* its own name, so an object has it when the field is there)
RelatedResources ==
    {c \in [nameField : BOOLEAN, nameHook : BOOLEAN, objName : BOOLEAN,
            shortField : BOOLEAN, shortHook : BOOLEAN, objShort : BOOLEAN] :
        (c.nameField => c.objName) /\ (c.shortField => c.objShort)}

\* the value full_dehydrate's loop stores for a field: the field's own, then
\* the dehydrate_<field> method's when there is one
LoopValue(hasHook, own) == IF hasHook THEN "hook" ELSE own

\* full_dehydrate of the related resource c (a new instance, which has no
\* ignore_fields): bundle.data after the loop over self.fields
related_fields(c) ==
    LET ks == {"id", "resource_uri"}
                \cup (IF c.nameField THEN {"name"} ELSE {})
                \cup (IF c.shortField THEN {"short_name"} ELSE {})
    IN [k \in ks |->
          CASE k = "id" -> "int"
            [] k = "resource_uri" -> "rel"
            [] k = "name" -> LoopValue(c.nameHook, "markup")
            [] OTHER -> LoopValue(c.shortHook, "markup")]

\* bundle.data of partial_dehydrate before its call of dehydrate
partial_fields(c) ==
    LET ks == {"id", "resource_uri"}
                \cup (IF c.nameHook \/ (c.nameField /\ c.objName) THEN {"name"} ELSE {})
                \cup (IF c.shortField /\ c.objShort THEN {"short_name"} ELSE {})
    IN [k \in ks |->
          CASE k = "id" -> "int"
            [] k = "resource_uri" -> "rel"
            [] k = "name" -> IF c.nameHook THEN "hook" ELSE "markup"
            [] OTHER -> "markup"]

\* partial_dehydrate(bundle) of the related resource c
partial_dehydrate(c) == dehydrate(partial_fields(c), BaseApiUriKeys)

\* full_dehydrate(bundle) of the related resource c
related_full_dehydrate(c) == dehydrate(related_fields(c), BaseApiUriKeys)

\* _dehydrate_related that expands every present instance in full (mutant)
dehydrate_related_full(instance, full) ==
    IF ~instance THEN "null" ELSE "full"

\* _dehydrate_related(bundle, related_resource, full): the method of the
\* related resource it calls, "null" when it returns None
dehydrate_related(instance, full) ==
    IF ~instance THEN "null"
    ELSE IF ~full THEN "partial" ELSE "full"

\* a relationship field about to be dehydrated: the kind of the field, whether
\* the related instance exists, the field's full flag, the related resource
RelatedCalls ==
    {[op |-> "dehydrate_related", pc |-> "field", kind |-> k, exists |-> e, full |-> f,
      resource |-> c, instance |-> FALSE, called |-> "", out |-> EmptyData,
      other |-> EmptyData] :
        k \in {"BaseForeignKey", "BaseRelatedField"}, e \in BOOLEAN, f \in BOOLEAN,
        c \in RelatedResources}

InitRelated == Quiet /\ call \in RelatedCalls

\* BaseRelatedField.dehydrate lines 62-77: the instance is what the
\* resource's get_related_<field> returns; a foreign key reads the attribute
RelatedInstance ==
    /\ call.op = "dehydrate_related" /\ call.pc = "field"
    /\ call' = [call EXCEPT !.pc = "dehydrate_related", !.instance = call.exists]
    /\ UNCHANGED <<db, api_uri_keys, res, rq, nreq>>

\* dehydrate_related of both field classes: _dehydrate_related with self.full
DehydrateRelated ==
    /\ call.op = "dehydrate_related" /\ call.pc = "dehydrate_related"
    /\ LET m == dehydrate_related(call.instance, call.full)
       IN call' = [call EXCEPT
                     !.pc = IF m = "null" THEN "done" ELSE "dehydrated",
                     !.called = m,
                     !.out = CASE m = "partial" -> partial_dehydrate(call.resource)
                               [] m = "full" -> related_full_dehydrate(call.resource)
                               [] OTHER -> EmptyData]
    /\ UNCHANGED <<db, api_uri_keys, res, rq, nreq>>

\* access_resource lines 101-107 on the same object with the other value of
\* full: the other representation of the instance
DehydrateOther ==
    /\ call.op = "dehydrate_related" /\ call.pc = "dehydrated"
    /\ call' = [call EXCEPT
                  !.pc = "done",
                  !.other = IF call.called = "partial"
                            THEN related_full_dehydrate(call.resource)
                            ELSE partial_dehydrate(call.resource)]
    /\ UNCHANGED <<db, api_uri_keys, res, rq, nreq>>

NextRelated == RelatedInstance \/ DehydrateRelated \/ DehydrateOther

SpecRelated == InitRelated /\ [][NextRelated]_vars

\* ------------------------------------------------------- clean_html fragments
\* the longest fragment
MaxFragment == 6

\* the characters of a fragment: the two tag delimiters, the names of two
\* elements (text when outside a tag) and an attribute
Chars == {"<", ">", "g", "s", "!"}

TagNames == {"g", "s"}

Fragments == UNION {[1..n -> Chars] : n \in 0..MaxFragment}

\* acceptable_elements and acceptable_attributes
AllowLists ==
    {[elements |-> e, attributes |-> a] :
        e \in {{}, {"g"}, {"g", "s"}}, a \in {{}, {"!"}}}

\* BeautifulSoup(fragment): the tag that starts at position i of the fragment,
\* len = 0 when the character there is text
TagAt(f, i) ==
    IF f[i] = "<" /\ i + 2 <= Len(f) /\ f[i + 1] \in TagNames /\ f[i + 2] = ">"
    THEN [len |-> 3, name |-> f[i + 1], attr |-> FALSE]
    ELSE IF f[i] = "<" /\ i + 3 <= Len(f) /\ f[i + 1] \in TagNames
            /\ f[i + 2] = "!" /\ f[i + 3] = ">"
    THEN [len |-> 4, name |-> f[i + 1], attr |-> TRUE]
    ELSE [len |-> 0, name |-> "", attr |-> FALSE]

\* one round of the loop of clean_html from position i on: tags outside
\* acceptable_elements are extracted, attributes outside acceptable_attributes
\* are deleted, and the soup is turned back into text
RECURSIVE clean_round(_, _, _)
clean_round(f, i, allow) ==
    IF i > Len(f) THEN [out |-> <<>>, removed |-> FALSE]
    ELSE LET t == TagAt(f, i)
             rest == clean_round(f, i + (IF t.len = 0 THEN 1 ELSE t.len), allow)
         IN IF t.len = 0
            THEN [out |-> <<f[i]>> \o rest.out, removed |-> rest.removed]
            ELSE IF t.name \notin allow.elements
            THEN [out |-> rest.out, removed |-> TRUE]
            ELSE [out |-> <<"<", t.name>>
                          \o (IF t.attr /\ "!" \in allow.attributes
                              THEN <<"!">> ELSE <<>>)
                          \o <<">">> \o rest.out,
                  removed |-> rest.removed]

\* clean_html that returns after the first round (mutant)
clean_html_one_round(fragment, allow) == clean_round(fragment, 1, allow).out

\* clean_html(fragment, acceptable_elements, acceptable_attributes) on the
\* characters of the fragment: rounds until one removes no tag
RECURSIVE clean_html_fragment(_, _)
clean_html_fragment(fragment, allow) ==
    LET round == clean_round(fragment, 1, allow)
    IN IF round.removed THEN clean_html_fragment(round.out, allow) ELSE round.out

CleanCalls ==
    {[op |-> "clean_html", pc |-> "fragment", fragment |-> f, allow |-> a,
      once |-> <<>>, twice |-> <<>>] : f \in Fragments, a \in AllowLists}

InitClean == Quiet /\ call \in CleanCalls

\* clean_html(fragment)
CleanHtml ==
    /\ call.op = "clean_html" /\ call.pc = "fragment"
    /\ call' = [call EXCEPT !.pc = "cleaned",
                            !.once = clean_html_fragment(call.fragment, call.allow)]
    /\ UNCHANGED <<db, api_uri_keys, res, rq, nreq>>

\* clean_html of what clean_html returned, same lists
CleanHtmlAgain ==
    /\ call.op = "clean_html" /\ call.pc = "cleaned"
    /\ call' = [call EXCEPT !.pc = "done",
                            !.twice = clean_html_fragment(call.once, call.allow)]
    /\ UNCHANGED <<db, api_uri_keys, res, rq, nreq>>

NextClean == CleanHtml \/ CleanHtmlAgain

SpecClean == InitClean /\ [][NextClean]_vars

\* --------------------------------------------------------- ISODateTimeField
\* the latest wall-clock hour of a timestamp; hours are counted from hour 0
MaxHour == 9

\* the zones of the list and, for each, its standard offset in hours and the
\* UTC hours [begin, end) in which daylight saving time adds an hour
ZoneNames == {"US/Eastern", "US/Central", "America/Bogota", "UTC"}

ZoneRule(z) ==
    CASE z = "US/Eastern" -> [std |-> 0 - 5, dst |-> TRUE, begin |-> 7, end |-> 12]
      [] z = "US/Central" -> [std |-> 0 - 6, dst |-> TRUE, begin |-> 8, end |-> 13]
      [] z = "America/Bogota" -> [std |-> 0 - 5, dst |-> FALSE, begin |-> 0, end |-> 0]
      [] OTHER -> [std |-> 0, dst |-> FALSE, begin |-> 0, end |-> 0]

\* AMERICA_FIRST_TIMEZONE_CHOICES: the zones in the order of the list
ZoneLists ==
    {l \in [1..Cardinality(ZoneNames) -> ZoneNames] :
        \A i, j \in DOMAIN l : i # j => l[i] # l[j]}

\* the UTC offsets a timestamp can carry; no zone ever has offset -3
Offsets == {0 - 6, 0 - 5, 0 - 4, 0 - 3, 0}

\* the offset of zone z at the UTC hour utc
OffsetAt(z, utc) ==
    LET r == ZoneRule(z)
    IN IF r.dst /\ r.begin <= utc /\ utc < r.end THEN r.std + 1 ELSE r.std

\* tz.localize(naive), is_dst=False: the offset pytz gives the wall-clock hour.
\* An hour that occurs twice gets the standard offset; an hour skipped by the
\* change to daylight saving time gets the offset in force before the change
localize(z, naive) ==
    LET r == ZoneRule(z)
    IN IF OffsetAt(z, naive - r.std) = r.std THEN r.std
       ELSE IF OffsetAt(z, naive - (r.std + 1)) = r.std + 1 THEN r.std + 1
       ELSE r.std

\* get_timezone_string(datetime_with_tz, offset): the first zone of the list
\* for which the localized wall-clock time is the instant supplied
get_timezone_string(zones, naive, offset) ==
    LET hits == {i \in DOMAIN zones : localize(zones[i], naive) = offset}
    IN IF hits = {} THEN "None"
       ELSE zones[CHOOSE i \in hits : \A j \in hits : i <= j]

\* ISODateTimeField.clean(value) for a value with wall-clock hour naive and
\* the offset given
iso_clean(zones, naive, offset) ==
    LET tz == get_timezone_string(zones, naive, offset)
    IN IF tz = "None"
       THEN [error |-> "The timezone offset was malformed", timezone |-> "None",
             utc_time |-> 0]
       ELSE [error |-> "", timezone |-> tz, utc_time |-> naive - offset]

IsoCalls ==
    {[op |-> "iso_clean", pc |-> "value", zones |-> l, naive |-> n, offset |-> o,
      timezone_string |-> "", out |-> [error |-> "", timezone |-> "", utc_time |-> 0]] :
        l \in ZoneLists, n \in 0..MaxHour, o \in Offsets}

InitIso == Quiet /\ call \in IsoCalls

\* clean lines 126-136: the value is parsed and the zone looked up
IsoGetTimezoneString ==
    /\ call.op = "iso_clean" /\ call.pc = "value"
    /\ call' = [call EXCEPT
                  !.pc = "timezone_string",
                  !.timezone_string =
                      get_timezone_string(call.zones, call.naive, call.offset)]
    /\ UNCHANGED <<db, api_uri_keys, res, rq, nreq>>

\* clean lines 138-149: the error, or the zone and the time in UTC
IsoClean ==
    /\ call.op = "iso_clean" /\ call.pc = "timezone_string"
    /\ call' = [call EXCEPT !.pc = "done",
                            !.out = iso_clean(call.zones, call.naive, call.offset)]
    /\ UNCHANGED <<db, api_uri_keys, res, rq, nreq>>

NextIso == IsoGetTimezoneString \/ IsoClean

SpecIso == InitIso /\ [][NextIso]_vars

\* ------------------------------------------------ ListField, IntegerListField
\* the longest list
MaxItems == 2

\* what the pattern of ListField lets stand before and after an element:
\* ['"]? on each side, each on its own
Quotes == {"", "'"}

\* elements that match regex_string: \d+ for IntegerListField, the pattern of
\* the 'fields' parameter for ListField
DigitStrings == {"1", "2", "3"}
NameStrings == {"id", "owner"}

\* one element of a value the pattern accepts: \s*['"]?{0}['"]?\s*
Elements(texts) ==
    [text : texts, open : Quotes, close : Quotes, space : BOOLEAN]

\* the values the pattern accepts: a bracketed, comma-separated list of elements
ListValues(texts) == UNION {[1..n -> Elements(texts)] : n \in 0..MaxItems}

\* max_items of an IntegerListField: None, or the number given
MaxItemsChoices ==
    {[given |-> FALSE, n |-> 0]} \cup {[given |-> TRUE, n |-> k] : k \in 0..2}

\* x.strip() of one piece of the split: the whitespace goes, the quotes stay
strip(e) == e.open \o e.text \o e.close

\* _string_to_list(str) of an accepted value: the brackets are stripped, the
\* rest is split on ',' and each piece stripped; [] when the first is empty
string_to_list(value) == [i \in DOMAIN value |-> strip(value[i])]

\* int(x): the number, or ValueError for anything but digits
int(x) ==
    CASE x = "1" -> [ok |-> TRUE, n |-> 1]
      [] x = "2" -> [ok |-> TRUE, n |-> 2]
      [] x = "3" -> [ok |-> TRUE, n |-> 3]
      [] OTHER -> [ok |-> FALSE, n |-> 0]

\* the test of max_items in IntegerListField.clean
too_many(max_items, cleaned_list) ==
    max_items.given /\ max_items.n # 0 /\ max_items.n < Len(cleaned_list)

\* IntegerListField.clean after ListField.clean: the error raised ("" when
\* none) and the list returned
integer_list_clean(max_items, cleaned_list) ==
    IF too_many(max_items, cleaned_list)
    THEN [error |-> "Too many elements supplied to the list", list |-> <<>>]
    ELSE IF \E i \in DOMAIN cleaned_list : ~int(cleaned_list[i]).ok
    THEN [error |-> "ValueError", list |-> <<>>]
    ELSE [error |-> "", list |-> [i \in DOMAIN cleaned_list |-> int(cleaned_list[i]).n]]

NoIntegers == [error |-> "", list |-> <<>>]

ListFieldCalls ==
    {[op |-> "list_clean", pc |-> "value", class |-> "IntegerListField",
      max_items |-> mx, value |-> v, cleaned_list |-> <<>>, out |-> NoIntegers,
      selected |-> filter_fields(<<>>)] :
        mx \in MaxItemsChoices, v \in ListValues(DigitStrings)}
    \cup {[op |-> "list_clean", pc |-> "value", class |-> "ListField",
           max_items |-> [given |-> FALSE, n |-> 0], value |-> v,
           cleaned_list |-> <<>>, out |-> NoIntegers,
           selected |-> filter_fields(<<>>)] : v \in ListValues(NameStrings)}

InitListField == Quiet /\ call \in ListFieldCalls

\* ListField.clean: RegexField.clean accepts the value, _string_to_list
ListFieldClean ==
    /\ call.op = "list_clean" /\ call.pc = "value"
    /\ call' = [call EXCEPT !.pc = "cleaned_list",
                            !.cleaned_list = string_to_list(call.value)]
    /\ UNCHANGED <<db, api_uri_keys, res, rq, nreq>>

\* IntegerListField.clean lines 228-234
IntegerListClean ==
    /\ call.op = "list_clean" /\ call.pc = "cleaned_list"
    /\ call.class = "IntegerListField"
    /\ call' = [call EXCEPT
                  !.pc = "done",
                  !.out = integer_list_clean(call.max_items, call.cleaned_list)]
    /\ UNCHANGED <<db, api_uri_keys, res, rq, nreq>>

\* the cleaned 'fields' parameter handed to filter_fields
ListFilterFields ==
    /\ call.op = "list_clean" /\ call.pc = "cleaned_list"
    /\ call.class = "ListField"
    /\ call' = [call EXCEPT !.pc = "done",
                            !.selected = filter_fields(call.cleaned_list)]
    /\ UNCHANGED <<db, api_uri_keys, res, rq, nreq>>

NextListField == ListFieldClean \/ IntegerListClean \/ ListFilterFields

SpecListField == InitListField /\ [][NextListField]_vars

\* ------------------------------------------------------------ _format_api_uri
\* the keys of an object_data: two of Meta.api_uri_keys, one that ends in
\* _uri and one that is neither
UriDataKeys == {"resource_uri", "next", "photo_uri", "title"}

\* a relative path, a URL that starts with the base URL already, None, ''
UriValues == {"rel", "abs", "null", ""}

\* _format_api_uri(request, object_data, keys)
format_api_uri(data, keys) == format_uri(data, api_uri_keys_after(data, keys))

UriCalls ==
    {[op |-> "format_api_uri", pc |-> "object_data", data |-> d,
      keys |-> BaseApiUriKeys, once |-> d, twice |-> d] :
        d \in [UriDataKeys -> UriValues]}

InitUri == Quiet /\ call \in UriCalls

\* dehydrate line 88: the pass over bundle.data
FormatApiUri ==
    /\ call.op = "format_api_uri" /\ call.pc = "object_data"
    /\ call' = [call EXCEPT !.pc = "formatted",
                            !.keys = api_uri_keys_after(call.data, call.keys),
                            !.once = format_api_uri(call.data, call.keys)]
    /\ UNCHANGED <<db, api_uri_keys, res, rq, nreq>>

\* the pass over the mapping it has produced
FormatApiUriAgain ==
    /\ call.op = "format_api_uri" /\ call.pc = "formatted"
    /\ call' = [call EXCEPT !.pc = "done",
                            !.keys = api_uri_keys_after(call.once, call.keys),
                            !.twice = format_api_uri(call.once, call.keys)]
    /\ UNCHANGED <<db, api_uri_keys, res, rq, nreq>>

NextUri == FormatApiUri \/ FormatApiUriAgain

SpecUri == InitUri /\ [][NextUri]_vars

\* ------------------------------------------------- dehydration of one object
\* an object about to be dehydrated: self.ignore_fields, and whether its
\* foreign key and its related instance are present
DehydrateCalls ==
    {[op |-> "full_dehydrate", pc |-> "fields", ignore |-> ign, fk |-> f, rel |-> r,
      data |-> EmptyData, out |-> EmptyData] :
        ign \in SUBSET initial_fields, f \in BOOLEAN, r \in BOOLEAN}

InitDehydrate == Quiet /\ call \in DehydrateCalls

\* full_dehydrate lines 518-545: the loop over self.fields
DehydrateFields ==
    /\ call.op = "full_dehydrate" /\ call.pc = "fields"
    /\ call' = [call EXCEPT
                  !.pc = "dehydrate",
                  !.data = dehydrate_fields(call.ignore, call.fk, call.rel)]
    /\ UNCHANGED <<db, api_uri_keys, res, rq, nreq>>

\* full_dehydrate line 547: bundle = self.dehydrate(bundle)
DehydrateHook ==
    /\ call.op = "full_dehydrate" /\ call.pc = "dehydrate"
    /\ call' = [call EXCEPT !.pc = "done",
                            !.out = dehydrate(call.data, BaseApiUriKeys)]
    /\ UNCHANGED <<db, api_uri_keys, res, rq, nreq>>

NextDehydrate == DehydrateFields \/ DehydrateHook

SpecDehydrate == InitDehydrate /\ [][NextDehydrate]_vars

\* -------------------------------------------------- _escape_fields on values
\* the keys of an object_data: a string field, the field of html_fields, a
\* field Meta.dont_escape may name, and a field whose value is no string
EscapeKeys == {"title", "info", "raw", "count"}

\* html_fields = ['info']
HtmlFields == {"info"}

\* the default lists of clean_html: g stands for an element of
\* acceptable_elements, s for one outside it, ! for an attribute outside
\* acceptable_attributes
DefaultAllow == [elements |-> {"g"}, attributes |-> {}]

\* acceptable_elements=[]
NoElements == [elements |-> {}, attributes |-> {}]

\* string values: empty, text, an unacceptable tag, an acceptable tag, one with
\* an unacceptable attribute, and a tag that forms when another is extracted
SampleFragments ==
    {<<>>, <<"g">>, <<"<", "s", ">">>, <<"<", "g", ">", "s">>, <<"<", "g", "!", ">">>,
     <<"<", "<", "s", ">", "s", ">">>}

StringValues == {[type |-> "str", text |-> f] : f \in SampleFragments}
IntValue == [type |-> "int", text |-> <<>>]

\* Meta.dont_escape
DontEscapeChoices == {{}, {"raw"}, {"raw", "info"}}

\* _escape_fields that cleans every string with the default lists (mutant)
escape_value_default(key, value, dont_escape) ==
    IF key \in dont_escape THEN value
    ELSE IF key \in HtmlFields \/ value.type = "str"
    THEN [value EXCEPT !.text = clean_html_fragment(value.text, DefaultAllow)]
    ELSE value

\* _escape_fields lines 322-327 for one key of object_data
escape_value(key, value, dont_escape) ==
    IF key \in dont_escape THEN value
    ELSE IF key \in HtmlFields
    THEN [value EXCEPT !.text = clean_html_fragment(value.text, DefaultAllow)]
    ELSE IF value.type = "str"
    THEN [value EXCEPT !.text = clean_html_fragment(value.text, NoElements)]
    ELSE value

\* _escape_fields(object_data) with the dont_escape of the descriptor
escape_object_data(object_data, dont_escape) ==
    [k \in DOMAIN object_data |-> escape_value(k, object_data[k], dont_escape)]

EscapeCalls ==
    {[op |-> "escape_fields", pc |-> "object_data", dont_escape |-> d,
      data |-> [title |-> t, info |-> i, raw |-> r, count |-> IntValue],
      out |-> [title |-> t, info |-> i, raw |-> r, count |-> IntValue]] :
        d \in DontEscapeChoices, t \in StringValues, i \in StringValues,
        r \in StringValues \cup {IntValue}}

InitEscape == Quiet /\ call \in EscapeCalls

\* dehydrate line 101: bundle.data = self._escape_fields(data)
EscapeFields ==
    /\ call.op = "escape_fields" /\ call.pc = "object_data"
    /\ call' = [call EXCEPT !.pc = "done",
                            !.out = escape_object_data(call.data, call.dont_escape)]
    /\ UNCHANGED <<db, api_uri_keys, res, rq, nreq>>

NextEscape == EscapeFields

SpecEscape == InitEscape /\ [][NextEscape]_vars

\* ------------------------------------------------------ validation of a form
\* the fields of a form and what a request can send for each: nothing, a
\* value its validators accept, a value they reject
FormFieldNames == {"limit", "visibility", "locale"}
RawValues == {"", "value", "bad"}

\* Form._clean_fields: cleaned_data holds the accepted and the empty values
clean_fields(data) ==
    [f \in {g \in DOMAIN data : data[g] # "bad"} |-> data[f]]

\* _post_clean that substitutes nothing (mutant)
post_clean_none(cleaned_data, defaults) == cleaned_data

\* BaseForm._post_clean: cleaned_data with the defaults of Meta.defaults put in
post_clean(cleaned_data, defaults) ==
    [f \in DOMAIN cleaned_data |->
        IF f \in defaults /\ cleaned_data[f] = "" THEN "default" ELSE cleaned_data[f]]

FormCalls ==
    {[op |-> "full_clean", pc |-> "_clean_fields", data |-> d, defaults |-> df,
      cleaned_data |-> EmptyData, seen |-> EmptyData, cleaned |-> FALSE] :
        d \in [FormFieldNames -> RawValues], df \in SUBSET FormFieldNames}

InitForm == Quiet /\ call \in FormCalls

\* Form.full_clean, first step: the validators of each field
CleanFields ==
    /\ call.op = "full_clean" /\ call.pc = "_clean_fields"
    /\ call' = [call EXCEPT !.pc = "_clean_form",
                            !.cleaned_data = clean_fields(call.data)]
    /\ UNCHANGED <<db, api_uri_keys, res, rq, nreq>>

\* Form.full_clean, second step: clean() of the form, which reads
\* self.cleaned_data as it is then
CleanForm ==
    /\ call.op = "full_clean" /\ call.pc = "_clean_form"
    /\ call' = [call EXCEPT !.pc = "_post_clean",
                            !.seen = call.cleaned_data, !.cleaned = TRUE]
    /\ UNCHANGED <<db, api_uri_keys, res, rq, nreq>>

\* Form.full_clean, third step: the _post_clean hook BaseForm overrides
PostClean ==
    /\ call.op = "full_clean" /\ call.pc = "_post_clean"
    /\ call' = [call EXCEPT
                  !.pc = "done",
                  !.cleaned_data = post_clean(call.cleaned_data, call.defaults)]
    /\ UNCHANGED <<db, api_uri_keys, res, rq, nreq>>

NextForm == CleanFields \/ CleanForm \/ PostClean

SpecForm == InitForm /\ [][NextForm]_vars

\* ----------------------------------------------- dehydration across resources
\* the deepest nesting of dehydrate calls the interpreter allows
MaxDepth == 4

\* the resource classes of an API; a graph gives, for each ordered pair, the
\* relationship field of the first that points to the second: none, one
\* declared full=False, one declared full=True
ResourceClasses == 1..3
RelationshipGraphs == [ResourceClasses -> [ResourceClasses -> {"none", "partial", "full"}]]

\* the relationship fields of resource class c in self.fields
Relationships(graph, c) == {t \in ResourceClasses : graph[c][t] # "none"}

\* a dehydration that resolves the relationships of the resource whatever the
\* method (mutant)
fields_to_resolve_always(graph, c, method) == Relationships(graph, c)

\* the relationship fields a dehydration of resource class c resolves:
\* full_dehydrate loops over self.fields, partial_dehydrate writes id,
\* resource_uri, name and short_name only
fields_to_resolve(graph, c, method) ==
    IF method = "full" THEN Relationships(graph, c) ELSE {}

\* the frame of one dehydrate call: the resource, the method, and the
\* relationship fields it has still to resolve
Frame(graph, c, method) ==
    [resource |-> c, method |-> method, todo |-> fields_to_resolve(graph, c, method)]

GraphCalls ==
    {[op |-> "dehydrate_graph", pc |-> "running", graph |-> g,
      stack |-> <<Frame(g, 1, "full")>>] : g \in RelationshipGraphs}

InitGraph == Quiet /\ call \in GraphCalls

\* the loop of full_dehydrate reaches a relationship field: field.dehydrate
\* calls _dehydrate_related with the field's full flag, which calls
\* partial_dehydrate or full_dehydrate of the related resource
ResolveRelated ==
    /\ call.op = "dehydrate_graph" /\ call.pc = "running"
    /\ LET n == Len(call.stack)
           top == call.stack[n]
       IN /\ top.todo # {}
          /\ LET t == CHOOSE x \in top.todo : \A y \in top.todo : x <= y
                 method == dehydrate_related(TRUE, call.graph[top.resource][t] = "full")
             IN IF n = MaxDepth
                THEN call' = [call EXCEPT !.pc = "RuntimeError"]
                ELSE call' = [call EXCEPT
                                !.stack = Append([call.stack EXCEPT ![n].todo = top.todo \ {t}],
                                                 Frame(call.graph, t, method))]
    /\ UNCHANGED <<db, api_uri_keys, res, rq, nreq>>

\* a dehydrate call with nothing left to resolve returns its bundle
ReturnBundle ==
    /\ call.op = "dehydrate_graph" /\ call.pc = "running"
    /\ LET n == Len(call.stack)
       IN /\ call.stack[n].todo = {}
          /\ call' = [call EXCEPT !.stack = SubSeq(call.stack, 1, n - 1),
                                  !.pc = IF n = 1 THEN "done" ELSE "running"]
    /\ UNCHANGED <<db, api_uri_keys, res, rq, nreq>>

NextGraph == ResolveRelated \/ ReturnBundle

\* a dehydration under way keeps running
SpecGraph == InitGraph /\ [][NextGraph]_vars /\ WF_vars(NextGraph)

\* ------------------------------------------------------- obj_update by steps
\* the field values of an object, and what a request body can hold for them
ObjectValues == [title : {"old", "new"}, status : {"live", "hidden"}]

\* full_hydrate(bundle): the values of bundle.data are set on bundle.obj
full_hydrate(obj, data) == [f \in DOMAIN obj |-> data[f]]

\* obj_update called with a bundle whose obj is an existing object (the
\* instance of a form, or what _lookup_obj returned) under self.request
UpdateCalls ==
    {[op |-> "obj_update", pc |-> "full_hydrate", method |-> m, user |-> u,
      before |-> [title |-> "old", status |-> st], obj |-> [title |-> "old", status |-> st],
      stored |-> [title |-> "old", status |-> st], data |-> d,
      edit |-> FALSE, resp |-> NoResponse] :
        m \in Verbs, u \in Users \cup {"none"}, st \in {"live", "hidden"},
        d \in ObjectValues}

InitUpdate == Quiet /\ call \in UpdateCalls

\* obj_update lines 729-730
UpdateHydrate ==
    /\ call.op = "obj_update" /\ call.pc = "full_hydrate"
    /\ call' = [call EXCEPT !.pc = "do_if_authorized",
                            !.obj = full_hydrate(call.obj, call.data)]
    /\ UNCHANGED <<db, api_uri_keys, res, rq, nreq>>

\* obj_update lines 732-737: the edit action saves the object; without
\* authorization nothing is called and the error is raised
UpdateEdit ==
    /\ call.op = "obj_update" /\ call.pc = "do_if_authorized"
    /\ IF do_if_authorized(call.method, call.user)
       THEN call' = [call EXCEPT !.pc = "done", !.edit = TRUE, !.stored = call.obj]
       ELSE call' = [call EXCEPT
                       !.pc = "done",
                       !.resp = raise_error(NewBundle("hydrated", <<>>), 401,
                                            "not_authorized_edit", "").resp]
    /\ UNCHANGED <<db, api_uri_keys, res, rq, nreq>>

NextUpdate == UpdateHydrate \/ UpdateEdit

SpecUpdate == InitUpdate /\ [][NextUpdate]_vars

\* ------------------------------------------------------- obj_create by steps
\* obj_create that submits whatever is not hidden (mutant)
create_action_submit(status) ==
    IF status = "hidden" THEN "submit_hidden" ELSE "submit"

\* obj_create lines 684-687: the action for the hydrated object, "" for none
create_action(status) ==
    CASE status = "live" -> "submit"
      [] status = "hidden" -> "submit_hidden"
      [] OTHER -> ""

\* obj_create called with a bundle under self.request: the status the data
\* give the object and whether the data carry an identifier
CreateCalls ==
    {[op |-> "obj_create", pc |-> "full_hydrate", method |-> m, user |-> u,
      status |-> st, id |-> i, hydrated |-> FALSE, asked |-> "", idAsked |-> "",
      invoked |-> "", obj |-> "object", error |-> ""] :
        m \in Verbs, u \in Users \cup {"none"}, st \in Statuses,
        i \in {"given", "null"}}

InitCreate == Quiet /\ call \in CreateCalls

\* obj_create lines 682-683: full_hydrate, then bundle.obj.id = None
CreateHydrate ==
    /\ call.op = "obj_create" /\ call.pc = "full_hydrate"
    /\ call' = [call EXCEPT !.pc = "submit", !.hydrated = TRUE, !.id = "null"]
    /\ UNCHANGED <<db, api_uri_keys, res, rq, nreq>>

\* obj_create lines 684-689: the action goes through do_if_authorized, whose
\* result becomes bundle.obj; the bundle is stored and returned
CreateSubmit ==
    /\ call.op = "obj_create" /\ call.pc = "submit"
    /\ LET action == create_action(call.status)
           allowed == do_if_authorized(call.method, call.user)
       IN call' = [call EXCEPT
                     !.pc = "done",
                     !.asked = action,
                     !.idAsked = IF action = "" THEN "" ELSE call.id,
                     !.invoked = IF allowed THEN action ELSE "",
                     !.obj = IF action # "" /\ ~allowed THEN "null" ELSE "object"]
    /\ UNCHANGED <<db, api_uri_keys, res, rq, nreq>>

NextCreate == CreateHydrate \/ CreateSubmit

SpecCreate == InitCreate /\ [][NextCreate]_vars

\* --------------------------------------------------- construction of a resource
MaxResourceIds == 3

\* attributes of the dictionary self.fields: its methods, never its keys
DictAttributes == {"pop", "get", "keys", "items", "update"}

\* hasattr(self.fields, name): self.fields is a dictionary from field name to
\* field, so a field name is a key of it and not an attribute
hasattr(fields, name) == name \in DictAttributes

\* BaseResource.__init__ lines 58-60 on the field names the superclass left
resource_init(num_resource_ids, fields) ==
    IF num_resource_ids > 1 /\ hasattr(fields, "id")
    THEN fields \ {"id"}
    ELSE fields

\* a resource class under construction: Meta.num_resource_ids and the field
\* names Resource.__init__ copies from base_fields
ConstructCalls ==
    {[op |-> "__init__", pc |-> "super", num_resource_ids |-> n,
      base_fields |-> b, fields |-> {}] :
        n \in 1..MaxResourceIds, b \in SUBSET FieldSet}

InitConstruct == Quiet /\ call \in ConstructCalls

\* line 57: Resource.__init__ sets self.fields to a copy of base_fields
SuperInit ==
    /\ call.op = "__init__" /\ call.pc = "super"
    /\ call' = [call EXCEPT !.pc = "pop", !.fields = call.base_fields]
    /\ UNCHANGED <<db, api_uri_keys, res, rq, nreq>>

\* lines 58-60
PopId ==
    /\ call.op = "__init__" /\ call.pc = "pop"
    /\ call' = [call EXCEPT !.pc = "done",
                   !.fields = resource_init(call.num_resource_ids, call.fields)]
    /\ UNCHANGED <<db, api_uri_keys, res, rq, nreq>>

NextConstruct == SuperInit \/ PopId

SpecConstruct == InitConstruct /\ [][NextConstruct]_vars

\* ===================================================================== claims
\* slot s holds the output of full_dehydrate
Dehydrated(s) ==
    /\ rq[s].pc = "respond"
    /\ ~(rq[s].req.rtype = "list" /\ rq[s].page = {})

\* the GET request of slot s asked for a non-empty list of valid names
ValidRequested(s) ==
    /\ rq[s].req.verb = "GET"
    /\ rq[s].req.fields # <<>>
    /\ \A i \in DOMAIN rq[s].req.fields : rq[s].req.fields[i] \in valid_fields

\* the keys the claim expects for a requested list, given the permanent fields
ExpectedKeys(fields, permanent) ==
    permanent \cup Range(fields)
      \cup {IdName(f) : f \in {g \in Range(fields) : g \in FieldSet /\ IsRelationship(g)}}

\* C1 as stated: for every valid non-empty requested field list the keys of
\* the dehydrated output are exactly the permanent fields (identifier and
\* canonical URI), the requested fields and the _id sibling of each requested
\* relationship field.
C1_AsStated ==
    \A s \in Slots :
        (Dehydrated(s) /\ ValidRequested(s)) =>
            DOMAIN rq[s].data = ExpectedKeys(rq[s].req.fields, {"id", "resource_uri"})

\* the field projection step of slot s is over
PastFilter(s) ==
    rq[s].pc \in {"obj_get", "obj_get_list", "dehydrate", "respond", "done"}

\* C1 amended: a requested field list is valid when each name is a field of
\* the resource, the _id name of a foreign-key field, or the canonical URI.
\* Every valid non-empty list is accepted, and the keys of the dehydrated
\* output are exactly the canonical URI (the only permanent field), the
\* requested fields and the _id sibling of each requested relationship field;
\* the identifier is present only when it was requested.
C1_ProjectionExact ==
    \A s \in Slots :
        /\ (ValidRequested(s) /\ PastFilter(s)) => rq[s].resp.msg # "invalid_field"
        /\ (Dehydrated(s) /\ ValidRequested(s)) =>
              /\ DOMAIN rq[s].data = ExpectedKeys(rq[s].req.fields, {"resource_uri"})
              /\ ("id" \in DOMAIN rq[s].data) <=> ("id" \in Range(rq[s].req.fields))

\* a relationship field and a scalar were requested and the identifier was
\* not: the output has the URI, both, and the sibling, and no identifier
C1_Witness ==
    \E s \in Slots :
        /\ Dehydrated(s)
        /\ rq[s].req.fields = <<"owner", "photo_uri">>
        /\ DOMAIN rq[s].data = {"resource_uri", "owner", "owner_id", "photo_uri"}

\* the valid-field closure as the claim words it, with the _id name of every
\* relationship field
StatedClosure ==
    FieldSet \cup DeclaredFields \cup MetaFields \cup {"resource_uri"}
      \cup {IdName(f) : f \in {g \in FieldSet : IsRelationship(g)}}

\* the valid-field closure with the _id names of foreign-key fields only
ForeignKeyClosure ==
    FieldSet \cup DeclaredFields \cup MetaFields \cup {"resource_uri"}
      \cup {IdName(f) : f \in {g \in FieldSet : IsForeignKey(g)}}

\* the request of slot s ended with the "not a valid field" error naming the
\* one name of its list outside closure, before any lookup or dehydration
RejectedNaming(s, closure) ==
    /\ rq[s].pc = "done"
    /\ \E n \in Range(rq[s].req.fields) \ closure :
          rq[s].resp = ErrorMessage(400, "invalid_field", n)
    /\ rq[s].outcome = "" /\ rq[s].found = NoObj /\ rq[s].page = {}
    /\ rq[s].data = EmptyData

\* C2 as stated: a requested field list with exactly one name outside the
\* closure of declared fields, _id fields of relationship fields and permanent
\* fields fails with the 400 error naming exactly that field, and no object
\* is looked up or dehydrated.
C2_AsStated ==
    \A s \in Slots :
        (rq[s].req.verb = "GET" /\ PastFilter(s)
           /\ Cardinality(Range(rq[s].req.fields) \ StatedClosure) = 1) =>
            RejectedNaming(s, StatedClosure)

\* C2 amended: a requested field list with exactly one name outside the
\* closure of declared fields, _id fields of foreign-key fields and permanent
\* fields (the _id name of a relationship that is not a foreign key is
\* outside it) fails with the 400 "not a valid field" error naming exactly
\* that field, and no object is looked up or dehydrated for the request.
C2_InvalidFieldRejected ==
    \A s \in Slots :
        (rq[s].req.verb = "GET" /\ PastFilter(s)
           /\ Cardinality(Range(rq[s].req.fields) \ ForeignKeyClosure) = 1) =>
            RejectedNaming(s, ForeignKeyClosure)

\* the _id name of the related (not foreign key) field is rejected although
\* a valid name precedes it
C2_Witness ==
    \E s \in Slots :
        /\ rq[s].req.fields = <<"id", "org_id">>
        /\ rq[s].resp = ErrorMessage(400, "invalid_field", "org_id")

\* slot s has finished a lookup whose error is its response
LookupFailed(s, code, msg) ==
    /\ rq[s].pc = "done"
    /\ rq[s].found = NoObj
    /\ rq[s].resp = ErrorMessage(code, msg, "")

\* C3: _lookup_obj decides in this order: nothing found gives NotFound;
\* otherwise view permission returns the object; otherwise a hidden object
\* gives Forbidden with the hidden message; otherwise a removed object gives
\* Gone; otherwise generic Forbidden. An object is returned only with view
\* permission, and the call ends with an object or with an error.
C3_LookupOrder ==
    \A s \in Slots :
        rq[s].outcome # "" =>
            /\ rq[s].outcome \in {"nothing", "http404"} => LookupFailed(s, 404, "not_found")
            /\ rq[s].outcome = "object" =>
                 IF rq[s].perm THEN rq[s].found = rq[s].req.target /\ rq[s].decision = "ok"
                 ELSE IF rq[s].seen = "hidden" THEN LookupFailed(s, 403, "forbidden_hidden")
                 ELSE IF rq[s].seen = "removed" THEN LookupFailed(s, 410, "gone")
                 ELSE LookupFailed(s, 403, "forbidden")
            /\ rq[s].found # NoObj => rq[s].perm
            /\ rq[s].found # NoObj \/ (rq[s].pc = "done" /\ rq[s].resp.body = "error_message")

\* a removed object was handed out by the lookup and the viewer has no view
\* permission: Gone, by the fourth branch
C3_Witness ==
    \E s \in Slots :
        /\ rq[s].outcome = "object" /\ ~rq[s].perm /\ rq[s].seen = "removed"
        /\ LookupFailed(s, 410, "gone")

\* slot s is a read (GET detail) whose lookup is over
ReadLookedUp(s) ==
    /\ rq[s].req.verb = "GET" /\ rq[s].req.rtype = "detail"
    /\ rq[s].outcome # ""

ActedOn(r, o) == {a \in r.acted : a[2] = o}

Dispatched(s) == rq[s].req.rtype \in {"detail", "list"}

\* C6: is_authorized allows GET for every identity and allows POST, PUT and
\* DELETE exactly when the identity is authenticated; do_if_authorized
\* invokes the object action only when is_authorized allows it for the
\* object, and otherwise does nothing.
C6_GateFollowsAuthorization ==
    \A s \in Slots :
        /\ \A c \in rq[s].calls :
              /\ c.method = "GET" => c.allowed
              /\ c.method \in {"POST", "PUT", "DELETE"} =>
                    (c.allowed <=> Authenticated(c.user))
        /\ \A g \in rq[s].gate : g.invoked <=> g.allowed
        /\ rq[s].acted = {<<g.action, g.obj>> : g \in {h \in rq[s].gate : h.allowed}}

\* a view's POST by an anonymous user reached do_if_authorized: refused, and
\* the submit was not invoked
C6_Witness ==
    \E s \in Slots : \E g \in rq[s].gate :
        /\ rq[s].req.verb = "POST" /\ ~Authenticated(rq[s].user)
        /\ g.action = "submit" /\ ~g.allowed /\ ~g.invoked
        /\ rq[s].acted = {}

\* C7: a request that already carries an authenticated identity never calls
\* the token validator; otherwise the validator is called, and when it fails
\* a GET goes on as anonymous while any other verb is aborted with
\* Unauthenticated (401) and no later step runs.
C7_AsStated ==
    \A s \in Slots :
        (Dispatched(s) /\ rq[s].pc \notin {"idle", "authenticate"}) =>
            IF Authenticated(rq[s].req.attached)
            THEN ~rq[s].validated /\ rq[s].user = rq[s].req.attached
            ELSE /\ rq[s].validated
                 /\ (rq[s].req.token = "bad" /\ rq[s].req.verb = "GET") =>
                       (rq[s].user = "anon" /\ rq[s].calls # {})
                 /\ (rq[s].req.token = "bad" /\ rq[s].req.verb # "GET") =>
                       /\ rq[s].pc = "done"
                       /\ rq[s].resp = ErrorMessage(401, "unauthenticated", "")
                       /\ rq[s].calls = {} /\ rq[s].acted = {} /\ rq[s].outcome = ""

\* the first request of a new resource instance, a DELETE with a token the
\* validator rejects, ended with a server error instead of Unauthenticated
C7_Witness ==
    \E s \in Slots :
        /\ rq[s].req.verb = "DELETE" /\ rq[s].req.token = "bad"
        /\ ~Authenticated(rq[s].req.attached)
        /\ rq[s].pc = "done" /\ rq[s].resp = ServerError
        /\ ~res.bundle.set

\* the errors the form of the operation has for the request of slot s
FormErrors(s) == form_errors(rq[s].req.rtype, rq[s].req.verb, rq[s].req.failing)

\* C8: when the form of the operation is invalid, is_valid aborts the request
\* with a 400 response whose 'errors' hold the messages of every failing
\* field, the bundle's data is not replaced by cleaned data, and no action and
\* no dehydration has happened or happens in the request.
C8_ValidationAggregates ==
    \A s \in Slots :
        /\ rq[s].resp.body = "errors" =>
              /\ rq[s].pc = "done"
              /\ rq[s].resp.code = 400
              /\ FormErrors(s) # {} /\ rq[s].resp.errors = FormErrors(s)
              /\ rq[s].acted = {} /\ rq[s].gate = {} /\ rq[s].data = EmptyData
              /\ rq[s].req.verb = "GET" => res.bundle.kind = "params"
        /\ (Dispatched(s) /\ FormErrors(s) # {}) =>
              /\ rq[s].pc \in {"idle", "authenticate", "get_detail", "get_list",
                               "post_list", "put_detail", "validate_update", "done"}
              /\ rq[s].acted = {} /\ rq[s].data = EmptyData
              /\ rq[s].pc = "done" =>
                    rq[s].resp.body \in {"errors", "error_message", "server_error"}

\* an update whose form fails on both of its fields was answered with both
C8_Witness ==
    \E s \in Slots :
        /\ rq[s].req.verb = "PUT" /\ rq[s].req.failing = {"name", "info"}
        /\ rq[s].found = rq[s].req.target
        /\ rq[s].resp = validation_response({"name", "info"})
        /\ rq[s].acted = {}

\* C9: for every interleaving of two requests on one resource instance, the
\* field projection a request's dehydration reads is the one computed from
\* that request's own field list; another request's ignore_fields is never
\* read.
C9_AsStated ==
    \A s \in Slots :
        (rq[s].req.verb = "GET" /\ rq[s].pc = "respond") =>
            rq[s].used = filter_fields(rq[s].req.fields).ignore

\* a request for the field "id" was dehydrated with the empty ignore list the
\* other request's filter_fields had stored in between
C9_Witness ==
    \E s \in Slots : \E t \in Slots \ {s} :
        /\ rq[s].req.fields = <<"id">> /\ rq[s].pc = "respond"
        /\ rq[t].req.fields = <<>> /\ rq[t].req.verb = "GET"
        /\ rq[s].used = {}
        /\ "owner" \in DOMAIN rq[s].data

\* C10: no request operation changes a Meta attribute; Meta.api_uri_keys holds
\* the same elements after any sequence of requests as before the first.
C10_AsStated == api_uri_keys = BaseApiUriKeys

\* a request dehydrated an object with a photo_uri key and Meta.api_uri_keys
\* has gained "photo_uri"
C10_Witness ==
    \E s \in Slots :
        /\ rq[s].pc = "done" /\ rq[s].resp = Response(200, "object")
        /\ api_uri_keys = Append(BaseApiUriKeys, "photo_uri")

\* the list request under evaluation has been through is_valid with the list
\* form and an integer limit above the ceiling
LimitAboveCeiling ==
    /\ call.op = "get_list" /\ call.pc # "is_valid"
    /\ call.form = "BaseModelResourceListForm"
    /\ call.limit.kind = "int" /\ call.limit.value > GET_LIMIT_MAX

C12_AsStated ==
    (call.op = "get_list" /\ call.pc = "done" /\ ~call.order_by.given /\ call.code = 200) =>
        /\ call.sorting.sorted
        /\ call.sorting.ordering = DefaultOrdering
        /\ call.objects = <<2, 1>>

\* a resource without a list validation form answered a request without
\* order_by in the storage's own order, here ascending
C12_Witness ==
    /\ call.op = "get_list" /\ call.pc = "done" /\ call.code = 200
    /\ call.form = "none" /\ ~call.order_by.given
    /\ ~call.sorting.sorted
    /\ call.objects = <<1, 2>>

\* the list request under evaluation has been through apply_sorting with a
\* non-empty cleaned order_by list
SortedByKeys ==
    /\ call.op = "get_list" /\ call.pc \in {"page", "done"}
    /\ call.form = "BaseModelResourceListForm" /\ call.errors = {}
    /\ call.order_by.keys # <<>>

\* the entry the three tiers give a key
TierEntry(key, entry) ==
    /\ entry.prefix = key.prefix
    /\ key.stem \in MapsToSimple => (entry.name = MappedName(key.stem) /\ ~entry.computed)
    /\ key.stem \in MapsTo \ MapsToSimple => (entry.name = key.stem /\ entry.computed)
    /\ key.stem \notin MapsTo => (entry.name = key.stem /\ ~entry.computed)

\* a key fails all three tiers
FailsTiers(key) == key.stem \notin MapsTo /\ key.stem \notin ModelFieldNames

\* the key's name is no attribute of the resource, or it ends in _id and
\* its name is no relationship field
FailsAttributeCheck(key) ==
    \/ key.stem \notin ResourceAttributes
    \/ key.suffix = "_id" /\ key.stem \notin RelationAttributes

\* the request was aborted with a 400 and no ordering, or ordered by the tier
\* entry of each key in input order, as some key is or no key is rejected
OrderedOrAborted(rejected) ==
    LET keys == call.order_by.keys
    IN IF rejected
       THEN /\ call.pc = "done" /\ call.code = 400
            /\ ~call.sorting.sorted /\ call.sorting.ordering = <<>>
            /\ call.objects = <<>>
       ELSE /\ call.sorting.sorted /\ call.sorting.error = ""
            /\ DOMAIN call.sorting.ordering = DOMAIN keys
            /\ \A i \in DOMAIN keys : TierEntry(keys[i], call.sorting.ordering[i])

C14_RelatedExpansion ==
    (call.op = "dehydrate_related" /\ call.pc \in {"dehydrated", "done"}) =>
        /\ call.instance = call.exists
        /\ ~call.exists => (call.called = "null" /\ call.out = EmptyData /\ call.pc = "done")
        /\ (call.exists /\ ~call.full) =>
              (call.called = "partial" /\ call.out = partial_dehydrate(call.resource))
        /\ call.called = "full" => (call.exists /\ call.full)
        /\ (call.exists /\ call.full) =>
              (call.called = "full" /\ call.out = related_full_dehydrate(call.resource))

\* a BaseRelatedField not declared full, whose accessor returned an instance,
\* holds the partial representation
C14_Witness ==
    /\ call.op = "dehydrate_related" /\ call.pc = "done"
    /\ call.kind = "BaseRelatedField" /\ call.exists /\ ~call.full
    /\ call.called = "partial"
    /\ call.resource.nameField /\ ~call.resource.shortField
    /\ DOMAIN call.out = {"id", "resource_uri", "name"}

\* the partial and the full representation of the instance under evaluation
PartialOut == IF call.called = "partial" THEN call.out ELSE call.other
FullOut == IF call.called = "partial" THEN call.other ELSE call.out

\* C15: for the same related instance, every key among id, resource_uri,
\* name and short_name that partial_dehydrate outputs is also output by
\* full_dehydrate with an equal value.
C15_AsStated ==
    (call.op = "dehydrate_related" /\ call.pc = "done" /\ call.called # "null") =>
        \A k \in DOMAIN PartialOut \cap {"id", "resource_uri", "name", "short_name"} :
            k \in DOMAIN FullOut /\ FullOut[k] = PartialOut[k]

\* a resource with a dehydrate_name method and no name field: the partial
\* representation has a name, the full one has none
C15_Witness ==
    /\ call.op = "dehydrate_related" /\ call.pc = "done" /\ call.called # "null"
    /\ call.resource.nameHook /\ ~call.resource.nameField
    /\ "name" \in DOMAIN PartialOut /\ "name" \notin DOMAIN FullOut

\* ---------------------------------------------------------------------- C16
\* C16: clean_html is idempotent: for every fragment and every pair of allow
\* lists, cleaning the cleaned fragment gives the cleaned fragment.
C16_Idempotent ==
    (call.op = "clean_html" /\ call.pc = "done") => call.twice = call.once

\* a fragment whose first round leaves a tag that is not acceptable (the
\* extraction joined the text around it into a new tag), cleaned twice
C16_Witness ==
    /\ call.op = "clean_html" /\ call.pc = "done"
    /\ call.once # call.fragment
    /\ LET first == clean_round(call.fragment, 1, call.allow).out
       IN \E i \in 1..Len(first) :
             /\ TagAt(first, i).len > 0
             /\ TagAt(first, i).name \notin call.allow.elements

\* ---------------------------------------------------------------------- C17
\* the zones of the list whose offset at the instant of the timestamp is the
\* offset the timestamp carries
ZonesWithOffset ==
    {z \in ZoneNames : OffsetAt(z, call.naive - call.offset) = call.offset}

\* C17: clean returns a zone of the list whose offset at the instant of the
\* timestamp is the supplied offset, with the instant in UTC; when no zone of
\* the list has that offset at that instant it fails with the
\* malformed-timezone error.
C17_AsStated ==
    (call.op = "iso_clean" /\ call.pc = "done") =>
        IF ZonesWithOffset = {}
        THEN call.out.error = "The timezone offset was malformed"
        ELSE /\ call.out.error = ""
             /\ call.out.timezone \in ZonesWithOffset
             /\ call.out.utc_time = call.naive - call.offset

\* a timestamp in the hour US/Eastern skips, carrying the standard offset:
\* clean returned US/Eastern, whose offset at that instant is another one
C17_Witness ==
    /\ call.op = "iso_clean" /\ call.pc = "done"
    /\ call.naive = 2 /\ call.offset = 0 - 5
    /\ call.out.timezone = "US/Eastern"
    /\ OffsetAt("US/Eastern", call.naive - call.offset) = 0 - 4

\* ---------------------------------------------------------------------- C18
\* the value is a list of digit strings, none of them quoted
Unquoted ==
    \A i \in DOMAIN call.value : call.value[i].open = "" /\ call.value[i].close = ""

\* the integers the elements of the value denote, in input order
IntegersOf(value) == [i \in DOMAIN value |-> int(value[i].text).n]

\* C18: IntegerListField.clean turns a bracketed, comma-separated list of digit
\* strings into those integers in input order, '[]' into the empty sequence,
\* and raises the too-many-elements error exactly when max_items is configured
\* and the list has more elements than that.
C18_AsStated ==
    (/\ call.op = "list_clean" /\ call.pc = "done"
     /\ call.class = "IntegerListField" /\ Unquoted) =>
        IF call.max_items.given /\ Len(call.value) > call.max_items.n
        THEN call.out.error = "Too many elements supplied to the list"
        ELSE call.out.error = "" /\ call.out.list = IntegersOf(call.value)

\* max_items=0 and the value '[1, 2]': clean returned the two integers
C18_Witness ==
    /\ call.op = "list_clean" /\ call.pc = "done"
    /\ call.class = "IntegerListField" /\ Unquoted
    /\ call.max_items = [given |-> TRUE, n |-> 0]
    /\ call.out = [error |-> "", list |-> <<1, 2>>]

\* ---------------------------------------------------------------------- C19
\* the same value with the quotes taken away
WithoutQuotes(value) == [i \in DOMAIN value |-> value[i].text]

\* C19: for every value the pattern accepts, quoted elements included,
\* ListField.clean gives the elements without brackets, separators, whitespace
\* or quotes, IntegerListField.clean gives the integers and raises nothing but
\* its validation error, and the quoted names select the fields the unquoted
\* names select.
C19_AsStated ==
    (call.op = "list_clean" /\ call.pc = "done") =>
        /\ call.cleaned_list = WithoutQuotes(call.value)
        /\ call.class = "IntegerListField" =>
              /\ call.out.error # "ValueError"
              /\ call.out.error = "" => call.out.list = IntegersOf(call.value)
        /\ call.class = "ListField" =>
              call.selected = filter_fields(WithoutQuotes(call.value))

\* the value ['id'] for the 'fields' parameter: the element kept its quotes
\* and filter_fields answered that 'id' is not a valid field
C19_Witness ==
    /\ call.op = "list_clean" /\ call.pc = "done" /\ call.class = "ListField"
    /\ Len(call.value) = 1
    /\ call.value[1].text = "id" /\ call.value[1].open = "'" /\ call.value[1].close = "'"
    /\ call.cleaned_list = <<"'id'">>
    /\ call.selected.invalid = "'id'"
    /\ filter_fields(<<"id">>).invalid = ""

\* ---------------------------------------------------------------------- C20
\* the keys the pass is about: those of api_uri_keys and those ending in _uri
IsUriKey(k) == k \in Range(BaseApiUriKeys) \/ EndsWithUri(k)

\* C20: after the pass every URI key with a non-empty value carries the base
\* URL once, a value that is absolute already is unchanged, a second pass
\* changes nothing, and empty or null values and all other keys are unchanged.
C20_AsStated ==
    (call.op = "format_api_uri" /\ call.pc = "done") =>
        /\ \A k \in UriDataKeys :
              IF IsUriKey(k) /\ Truthy(call.data[k])
              THEN call.once[k] = "abs"
              ELSE call.once[k] = call.data[k]
        /\ call.twice = call.once

\* an object_data whose resource_uri is absolute already: the pass put the
\* base URL before it, and the second pass once more
C20_Witness ==
    /\ call.op = "format_api_uri" /\ call.pc = "done"
    /\ call.data["resource_uri"] = "abs"
    /\ call.once["resource_uri"] = "abs_abs"
    /\ call.twice["resource_uri"] = "abs_abs_abs"
    /\ call.once["title"] = call.data["title"]

\* ---------------------------------------------------------------------- C21
\* C21: after dehydrate every relationship field key of the mapping has a
\* sibling '<field>_id' key, the identifier of the nested representation when
\* the relationship resolved and null when it was empty; a key that is not a
\* relationship field gets no sibling.
C21_IdSiblings ==
    (call.op = "full_dehydrate" /\ call.pc = "done") =>
        /\ \A k \in DOMAIN call.out :
              (k \in FieldSet /\ IsRelationship(k)) =>
                  /\ IdName(k) \in DOMAIN call.out
                  /\ call.out[IdName(k)] = IF call.out[k] = "bundle" THEN "int" ELSE "null"
                  /\ call.out[k] = "bundle" <=> (IF IsForeignKey(k) THEN call.fk ELSE call.rel)
        /\ \A k \in DOMAIN call.data :
              ~(k \in FieldSet /\ IsRelationship(k)) =>
                  (IdName(k) \in DOMAIN call.out => IdName(k) \in DOMAIN call.data)
        /\ DOMAIN call.out =
              DOMAIN call.data
              \cup {IdName(k) : k \in {j \in DOMAIN call.data : IsRelationship(j)}}

\* an object whose foreign key resolved and whose related instance is absent,
\* dehydrated with both relationship fields and a scalar in the mapping
C21_Witness ==
    /\ call.op = "full_dehydrate" /\ call.pc = "done"
    /\ call.fk /\ ~call.rel
    /\ {"owner", "org", "photo_uri"} \subseteq DOMAIN call.out
    /\ call.out["owner_id"] = "int" /\ call.out["org_id"] = "null"
    /\ "photo_uri_id" \notin DOMAIN call.out

\* ---------------------------------------------------------------------- C22
\* the tags of a fragment, as BeautifulSoup finds them
TagsOf(f) == {TagAt(f, i) : i \in {j \in 1..Len(f) : TagAt(f, j).len > 0}}

\* C22: after the escaping pass a string under a key that is neither in
\* dont_escape nor an HTML field holds no markup, the value of an HTML field
\* holds only acceptable elements without unacceptable attributes, and the
\* values under dont_escape keys and the values that are no strings are
\* unchanged.
C22_Escaped ==
    (call.op = "escape_fields" /\ call.pc = "done") =>
        \A k \in EscapeKeys :
            IF k \in call.dont_escape \/ (k \notin HtmlFields /\ call.data[k].type # "str")
            THEN call.out[k] = call.data[k]
            ELSE IF k \in HtmlFields
            THEN /\ \A t \in TagsOf(call.out[k].text) : t.name = "g" /\ ~t.attr
                 /\ call.out[k].text = clean_html_fragment(call.data[k].text, DefaultAllow)
            ELSE /\ TagsOf(call.out[k].text) = {}
                 /\ call.out[k].text = clean_html_fragment(call.data[k].text, NoElements)

\* an object_data with an acceptable tag under title and under info and markup
\* under the dont_escape key raw: title lost the tag, info kept it without
\* the attribute, raw is as it was
C22_Witness ==
    /\ call.op = "escape_fields" /\ call.pc = "done"
    /\ call.dont_escape = {"raw"}
    /\ call.data.title.text = <<"<", "g", ">", "s">> /\ call.out.title.text = <<"s">>
    /\ call.data.info.text = <<"<", "g", "!", ">">> /\ call.out.info.text = <<"<", "g", ">">>
    /\ call.data.raw.text = <<"<", "s", ">">> /\ call.out.raw = call.data.raw

\* ---------------------------------------------------------------------- C23
\* the fields with a configured default and an empty cleaned value
Defaulted == {f \in call.defaults : f \in DOMAIN call.seen /\ call.data[f] = ""}

\* C23 as stated: the defaults are substituted after the validators of the
\* fields and before clean(), so clean() sees the substituted defaults.
C23_AsStated ==
    (call.op = "full_clean" /\ call.cleaned) =>
        \A f \in Defaulted : call.seen[f] = "default"

\* C23: the defaults are substituted after the validators of the fields and
\* after clean(): clean() sees the empty values, and cleaned_data holds the
\* default of every field with a default and an empty value once validation
\* is over.
C23_DefaultsAfterClean ==
    /\ (call.op = "full_clean" /\ call.cleaned) =>
          /\ call.seen = clean_fields(call.data)
          /\ \A f \in Defaulted : call.seen[f] = ""
    /\ (call.op = "full_clean" /\ call.pc = "done") =>
          /\ DOMAIN call.cleaned_data = DOMAIN call.seen
          /\ \A f \in DOMAIN call.cleaned_data :
                call.cleaned_data[f] =
                    IF f \in Defaulted THEN "default" ELSE call.seen[f]
    /\ (call.op = "full_clean" /\ call.pc \in {"_clean_fields", "_clean_form"}) =>
          \A f \in DOMAIN call.cleaned_data : call.cleaned_data[f] # "default"

\* a form with a default for limit, validated with no limit sent: clean() saw
\* the empty value and cleaned_data holds the default afterwards
C23_Witness ==
    /\ call.op = "full_clean" /\ call.pc = "done"
    /\ "limit" \in call.defaults /\ call.data["limit"] = ""
    /\ call.seen["limit"] = ""
    /\ call.cleaned_data["limit"] = "default"

\* ---------------------------------------------------------------------- C24
\* there is a full relationship field from resource class a to b
FullField(a, b) == call.graph[a][b] = "full"

\* some cycle of the graph is made of full relationship fields only
FullCycle ==
    \E a \in ResourceClasses :
        \/ FullField(a, a)
        \/ \E b \in ResourceClasses : FullField(a, b) /\ FullField(b, a)
        \/ \E b, c \in ResourceClasses :
              FullField(a, b) /\ FullField(b, c) /\ FullField(c, a)

\* C24: the dehydration of an object terminates for every relationship graph,
\* cyclic ones included, in which no cycle is made of full relationship fields
\* only; a call of partial_dehydrate resolves no relationship.
C24_Terminates ==
    /\ (call.op = "dehydrate_graph" /\ ~FullCycle) ~> (call.pc = "done")
    /\ []((call.op = "dehydrate_graph" /\ ~FullCycle) => call.pc # "RuntimeError")
    /\ [](call.op = "dehydrate_graph" =>
            \A i \in 1..Len(call.stack) :
                call.stack[i].method = "partial" => call.stack[i].todo = {})

\* a graph with a cycle through a relationship that is not full (1 to 2 full,
\* 2 back to 1 partial), dehydrated to the end
C24_Witness ==
    /\ call.op = "dehydrate_graph" /\ call.pc = "done"
    /\ call.graph[1][2] = "full" /\ call.graph[2][1] = "partial"
    /\ ~FullCycle

\* ---------------------------------------------------------------------- C25
\* C25: obj_update invokes the edit action only for an authorized identity;
\* for any other it fails with 'You are not authorized to edit this object'
\* (401), edit is not invoked, and the field values of the target object are
\* what they were before the call.
C25_AsStated ==
    (call.op = "obj_update" /\ call.pc = "done") =>
        /\ call.edit <=> is_authorized(call.method, call.user, TRUE)
        /\ ~is_authorized(call.method, call.user, TRUE) =>
              /\ call.resp = ErrorMessage(401, "not_authorized_edit", "")
              /\ call.stored = call.before
              /\ call.obj = call.before

\* an update by an identity that is not authorized, with a new title in the
\* body: 401, no edit, the stored values as before, the object hydrated
C25_Witness ==
    /\ call.op = "obj_update" /\ call.pc = "done"
    /\ call.method = "PUT" /\ call.user = "none"
    /\ call.resp.code = 401 /\ ~call.edit /\ call.stored = call.before
    /\ call.data.title = "new" /\ call.obj.title = "new"

\* ---------------------------------------------------------------------- C26
\* C26: the projection a response is dehydrated with depends on the 'fields'
\* parameter of its own request only: whatever requests came before on the
\* resource instance, a request without fields (the POST and PUT that answer
\* with data included) is dehydrated with no field excluded.
C26_AsStated ==
    \A s \in Slots :
        (rq[s].pc = "respond" /\ rq[s].req.fields = <<>>) =>
            /\ rq[s].used = {}
            /\ ~(rq[s].req.rtype = "list" /\ rq[s].page = {}) =>
                  FieldSet \subseteq DOMAIN rq[s].data

\* a PUT or POST answered with data after a GET that asked for some fields:
\* it was dehydrated with the ignore list that GET left on the instance
C26_Witness ==
    \E s \in Slots :
        /\ rq[s].req.verb \in {"POST", "PUT"} /\ rq[s].req.fields = <<>>
        /\ rq[s].pc = "respond"
        /\ res.ignore_fields.has /\ rq[s].used = res.ignore_fields.names
        /\ rq[s].used # {}
        /\ "owner" \notin DOMAIN rq[s].data

\* ---------------------------------------------------------------------- C27
\* the request of slot s fails authentication
FailsAuthentication(s) ==
    is_authenticated(rq[s].req.attached, rq[s].req.token, rq[s].req.verb).error

\* the request of slot s passes authentication with a body that is no JSON
HasMalformedJson(s) ==
    /\ ~FailsAuthentication(s)
    /\ rq[s].req.verb \in {"POST", "PUT"} /\ ~rq[s].req.jsonOk

\* C27: every call of raise_error ends the request with a response of the
\* given class whose body is {'error_message': message}, in every state of the
\* resource, one that has created no bundle yet included (authentication
\* failure or malformed JSON on its first request).
C27_AsStated ==
    \A s \in Slots :
        (Dispatched(s) /\ rq[s].pc = "done") =>
            /\ FailsAuthentication(s) =>
                  rq[s].resp = ErrorMessage(401, "unauthenticated", "")
            /\ HasMalformedJson(s) =>
                  rq[s].resp = ErrorMessage(400, "malformed_json", "")

\* the first request of a new resource instance, a POST of an authenticated
\* user with a malformed body, ended with a server error; no bundle exists
C27_Witness ==
    \E s \in Slots :
        /\ Dispatched(s) /\ rq[s].pc = "done"
        /\ HasMalformedJson(s) /\ rq[s].req.verb = "POST"
        /\ rq[s].resp = ServerError
        /\ ~res.bundle.set

\* ---------------------------------------------------------------------- C28
\* the GET request of slot s has passed the step before the lookup
PastProjection(s) == rq[s].pc \in {"obj_get", "obj_get_list", "dehydrate", "respond"}

CreateAuthorized == is_authorized(call.method, call.user, TRUE)

\* the identifier is null when an action is asked for, and the action invoked
\* is submit exactly for a live object and an authorized identity,
\* submit_hidden exactly for a hidden one, and none otherwise; no error
ActionsAsClaimed ==
    /\ call.id = "null" /\ call.idAsked \in {"", "null"}
    /\ call.invoked = "submit" <=> (call.status = "live" /\ CreateAuthorized)
    /\ call.invoked = "submit_hidden" <=> (call.status = "hidden" /\ CreateAuthorized)
    /\ call.invoked \in {"", "submit", "submit_hidden"}
    /\ call.error = ""

C30_AsStated ==
    (call.op = "__init__" /\ call.pc = "done") =>
        /\ call.num_resource_ids > 1 => "id" \notin call.fields
        /\ call.num_resource_ids = 1 => call.fields = call.base_fields

\* a resource addressed by two keys is constructed and still has 'id'
C30_Witness ==
    /\ call.op = "__init__" /\ call.pc = "done"
    /\ call.num_resource_ids = 2
    /\ "id" \in call.base_fields /\ "id" \in call.fields

====
